---------------------------- MODULE Spec2Model ----------------------------
(***************************************************************************)
(* A model of the NFC gatekeeper: the tag codec and lock steps of          *)
(* nfc_handler.py / interface.py, the gate observer and its hand-off to    *)
(* the asyncio consumer of main.py, the mess session gate (mess_logic.py,  *)
(* main.process_entry, database.py) and the multi-stage lock scripts       *)
(* (test/lock_card.py, .modules/test/smart_write.py).                      *)
(*                                                                         *)
(* Identities and page contents are sequences of byte values; a Python     *)
(* None is the value None below.  Clock readings are whole seconds.        *)
(***************************************************************************)
EXTENDS Integers, Sequences, FiniteSets, Bags, TLC

VARIABLES
    \* ---- mess side (main.py, mess_logic.py, database.py) ----
    tod,                 \* wall clock, seconds since local midnight
    day,                 \* local calendar day
    TESTING,             \* config.TESTING
    tz_offset,           \* local time minus UTC, in seconds
    mess_entries,        \* bag of rows of table mess_entries
    result,              \* what the last handler returned
    published,           \* what manager.broadcast last sent
    call,                \* the last handler call: its inputs and what it reached
    \* ---- gate side (nfc_handler.py) ----
    now,                 \* time.time(), seconds
    last_scanned_uid,    \* module global of nfc_handler.py
    reader_config,       \* GateObserver.reader_config
    tag_mem,             \* memory of each physical tag
    loop_queue,          \* coroutines scheduled on the event loop
    entries,             \* rows logged by database.log_entry
    tap,                 \* record of the last process_card run
    watch,               \* per UID: its last two insertion events whose UID was read
    bridge,              \* the taps handed to the event loop, numbered per UID
    \* ---- lock scripts ----
    lk_script,           \* which lock sequence is running
    lk_pc,               \* its position
    lk_mem,              \* memory of the tag on the reader
    lk_cmds,             \* command frames sent in this run
    lk_local,            \* the script's local variables
    lk_result,           \* what the run reported
    lk_verified,         \* whether a lock step has read the lock page as locked
    \* ---- interface.py: StudentCardObserver ----
    program,             \* which observer program watches the reader
    last_uid,            \* StudentCardObserver.last_uid
    cards,               \* rows of table cards
    itap,                \* record of the last _process_card run
    startup,             \* whether the program has started, and the frames it sent while starting
    \* ---- one command on the transport ----
    xfer,                \* the last answer of connection.transmit and what the callers made of it
    prev_xfer,           \* the one before
    dlock,               \* counters and last outcome of test_dlock.LockCardObserver
    \* ---- batch writers and readers ----
    w_script,            \* which writer runs
    w_fields,            \* page_04_data, page_05_data as entered
    w_num,               \* current_num
    w_end,               \* end_num of custom_write.py
    w_frame,             \* the last write frame for page 0x06
    card,                \* pages 0x04..0x07 of the tag on the reader
    decoded,             \* what the readers return for that tag
    \* ---- main.py: ConnectionManager ----
    active_connections,  \* manager.active_connections
    inbox,               \* per listener, how the last send to it ended
    sending              \* the broadcast that is suspended in a send, if any

messVars == <<tod, day, TESTING, tz_offset, mess_entries, result, published,
              call>>
gateVars == <<now, last_scanned_uid, reader_config, tag_mem, loop_queue,
              entries, tap, watch, bridge>>
lockVars == <<lk_script, lk_pc, lk_mem, lk_cmds, lk_local, lk_result, lk_verified>>
ifaceVars == <<program, last_uid, cards, itap, startup>>
xferVars == <<xfer, prev_xfer, dlock>>
codecVars == <<w_script, w_fields, w_num, w_end, w_frame, card, decoded>>
pubVars == <<active_connections, inbox, sending>>
otherVars == <<ifaceVars, xferVars, codecVars, pubVars>>
vars == <<messVars, gateVars, lockVars, otherVars>>

-----------------------------------------------------------------------------
(* Bounds of the model *)

MaxDay == 2
MaxEntries == 2

-----------------------------------------------------------------------------
(* Byte strings *)

None == << -1 >>

\* "IIITKOTAUSER"
Guest == <<73, 73, 73, 84, 75, 79, 84, 65, 85, 83, 69, 82>>
\* "2022", "KUCP", "1033", "9999"
Str2022 == <<50, 48, 50, 50>>
StrKUCP == <<75, 85, 67, 80>>
Str1033 == <<49, 48, 51, 51>>
Str9999 == <<57, 57, 57, 57>>
StrIIIT == <<73, 73, 73, 84>>
StrKOTA == <<75, 79, 84, 65>>
StrUSER == <<85, 83, 69, 82>>

Id1033 == Str2022 \o StrKUCP \o Str1033
Id9999 == Str2022 \o StrKUCP \o Str9999

\* table students of students.db: rows (ID, NAME)
StudentsTable == { [ID |-> Id1033, NAME |-> "Student 1033"] }

get_student(student_id) ==
    IF \E row \in StudentsTable : row.ID = student_id
    THEN CHOOSE row \in StudentsTable : row.ID = student_id
    ELSE [ID |-> None, NAME |-> "None"]

IsStudent(student_id) == \E row \in StudentsTable : row.ID = student_id

-----------------------------------------------------------------------------
(* mess_logic.py *)

Hm(h, m) == (h * 60 + m) * 60

SESSIONS == <<
    [name |-> "BREAKFAST", start |-> Hm(7, 30),  end |-> Hm(10, 0)],
    [name |-> "LUNCH",     start |-> Hm(12, 0),  end |-> Hm(15, 0)],
    [name |-> "SNACKS",    start |-> Hm(17, 0),  end |-> Hm(18, 30)],
    [name |-> "DINNER",    start |-> Hm(19, 30), end |-> Hm(22, 0)] >>

NoSession == "None"

RECURSIVE ScanSessions_Exclusive(_, _)
ScanSessions_Exclusive(i, current_time) ==
    IF i > Len(SESSIONS) THEN NoSession
    ELSE IF SESSIONS[i].start <= current_time /\ current_time < SESSIONS[i].end
         THEN SESSIONS[i].name
         ELSE ScanSessions_Exclusive(i + 1, current_time)

RECURSIVE ScanSessions(_, _)
ScanSessions(i, current_time) ==
    IF i > Len(SESSIONS) THEN NoSession
    ELSE IF SESSIONS[i].start <= current_time /\ current_time <= SESSIONS[i].end
         THEN SESSIONS[i].name
         ELSE ScanSessions(i + 1, current_time)

TestFallback_Always(testing) == "TEST"

TestFallback(testing) == IF testing THEN "TEST" ELSE NoSession

get_current_session(current_time, testing) ==
    LET hit == ScanSessions(1, current_time)
    IN  IF hit # NoSession THEN hit ELSE TestFallback(testing)

-----------------------------------------------------------------------------
(* database.py: the mess_entries table *)

\* date(TIMESTAMP) of a row inserted now: CURRENT_TIMESTAMP is UTC
SqlDate(d, t, off) ==
    IF t - off < 0 THEN d - 1
    ELSE IF t - off >= 86400 THEN d + 1 ELSE d

has_eaten_AnyDay(rows, student_id, session_name, today) ==
    \E row \in BagToSet(rows) :
        /\ row.STUDENT_ID = student_id
        /\ row.SESSION_NAME = session_name

has_eaten(rows, student_id, session_name, today) ==
    \E row \in BagToSet(rows) :
        /\ row.STUDENT_ID = student_id
        /\ row.SESSION_NAME = session_name
        /\ row.DATE = today

\* the table after log_mess_entry; db_ok is whether the INSERT succeeded
log_mess_entry(rows, student_id, session_name, stamp, db_ok) ==
    IF db_ok
    THEN rows (+) SetToBag({[STUDENT_ID |-> student_id,
                             SESSION_NAME |-> session_name,
                             DATE |-> stamp]})
    ELSE rows


-----------------------------------------------------------------------------
(* main.py: process_entry, handle_nfc_tap, manual_entry *)

EntryName(student_id) ==
    IF student_id = Guest THEN "Guest User"
    ELSE IF IsStudent(student_id) THEN get_student(student_id).NAME
    ELSE "Unknown"

CallsHasEaten_Everyone(student_id) == TRUE

\* left operand of the duplicate check: has_eaten is called only when it holds
CallsHasEaten(student_id) == student_id # Guest

DuplicateCheck(student_id, rows, session, today) ==
    CallsHasEaten(student_id) /\ has_eaten(rows, student_id, session, today)

Response(status, message, student_id, session) ==
    [type |-> "mess_response", status |-> status, message |-> message,
     student_id |-> student_id, name |-> EntryName(student_id),
     session |-> session]

NoResult == [type |-> "none", status |-> "none", message |-> "none",
             student_id |-> None, name |-> "none", session |-> "-"]

RowsToday(rows, student_id, session, today) ==
    { row \in BagToSet(rows) : /\ row.STUDENT_ID = student_id
                               /\ row.SESSION_NAME = session
                               /\ row.DATE = today }

NoCall == [handler |-> "none", reached |-> FALSE, student_id |-> None,
           tod |-> 0, day |-> 0, session |-> NoSession, eaten |-> FALSE,
           prior |-> 0, db_ok |-> FALSE, consulted |-> FALSE]

\* the call as process_entry sees it on entry
EntryCall(handler, student_id, session, db_ok, consulted) ==
    [handler |-> handler, reached |-> TRUE, student_id |-> student_id,
     tod |-> tod, day |-> day, session |-> session,
     eaten |-> RowsToday(mess_entries, student_id, session, day) # {},
     prior |-> IF RowsToday(mess_entries, student_id, session, day) = {} THEN 0
               ELSE CopiesIn(CHOOSE row \in RowsToday(mess_entries, student_id,
                                                      session, day) : TRUE,
                             mess_entries),
     db_ok |-> db_ok, consulted |-> consulted]

process_entry_LogsFirst(handler, student_id, db_ok) ==
    LET session == get_current_session(tod, TESTING)
    IN  /\ mess_entries' = IF session = NoSession THEN mess_entries
                           ELSE log_mess_entry(mess_entries, student_id, session,
                                               SqlDate(day, tod, tz_offset), db_ok)
        /\ call' = EntryCall(handler, student_id, session, db_ok,
                             CallsHasEaten(student_id))
        /\ result' =
              IF session = NoSession
              THEN Response("error", "No Active Session", student_id, "-")
              ELSE IF DuplicateCheck(student_id, mess_entries, session, day)
              THEN Response("denied", "Already taken", student_id, session)
              ELSE IF db_ok
              THEN Response("success", "Enjoy your", student_id, session)
              ELSE Response("error", "Database Error", student_id, "-")

process_entry(handler, student_id, db_ok) ==
    LET session == get_current_session(tod, TESTING)
    IN  IF session = NoSession
        THEN /\ result' = Response("error", "No Active Session", student_id, "-")
             /\ call' = EntryCall(handler, student_id, session, db_ok, FALSE)
             /\ UNCHANGED mess_entries
        ELSE IF DuplicateCheck(student_id, mess_entries, session, day)
        THEN /\ result' = Response("denied", "Already taken", student_id, session)
             /\ call' = EntryCall(handler, student_id, session, db_ok, TRUE)
             /\ UNCHANGED mess_entries
        ELSE /\ mess_entries' = log_mess_entry(mess_entries, student_id, session,
                                               SqlDate(day, tod, tz_offset), db_ok)
             /\ call' = EntryCall(handler, student_id, session, db_ok,
                                  CallsHasEaten(student_id))
             /\ result' = IF db_ok
                          THEN Response("success", "Enjoy your", student_id, session)
                          ELSE Response("error", "Database Error", student_id, "-")

Listeners == {"W1", "W2"}

Range(seq) == { seq[i] : i \in 1..Len(seq) }

Propagates_Unguarded(failed) == failed

\* "try: await connection.send_json(message) / except: pass": whether a send
\* that failed leaves the loop of broadcast
Propagates(failed) == FALSE

\* ConnectionManager.broadcast: [inbox, raised]; fails are the listeners
\* whose send_json raises.  A listener gets the message when its own send
\* works and no send before it ended the loop.  The sends of one broadcast
\* are taken together; "failed" marks a listener whose send raised.
broadcast(connections, boxes, message, fails) ==
    LET ends(i) == Propagates(connections[i] \in fails)
        tried(w) == \E i \in 1..Len(connections) :
                       connections[i] = w /\ \A j \in 1..(i - 1) : ~ends(j)
    IN  [inbox  |-> [w \in Listeners |->
                       IF ~tried(w) THEN boxes[w]
                       ELSE IF w \in fails THEN "failed"
                       ELSE "sent"],
         raised |-> \E i \in 1..Len(connections) : ends(i)]

\* "await manager.broadcast(result)" at the end of a handler: the result is
\* returned unless broadcast raised
Broadcast ==
    \E fails \in SUBSET Range(active_connections) :
        \E b \in {broadcast(active_connections, inbox, result', fails)} :
            /\ inbox' = b.inbox
            /\ published' = IF b.raised THEN NoResult ELSE result'

\* message: what the observer passes to the callback; tag_id is None when the
\* dict has no such key
handle_nfc_tap(message, db_ok) ==
    IF message.type # "tag"
    THEN /\ result' = [NoResult EXCEPT !.type = "callback", !.status = "ignored"]
         /\ call' = [NoCall EXCEPT !.handler = "handle_nfc_tap"]
         /\ UNCHANGED <<mess_entries, published, inbox>>
    ELSE IF message.tag_id = None \/ message.tag_id = <<>>
    THEN /\ result' = [NoResult EXCEPT !.type = "callback", !.status = "error"]
         /\ call' = [NoCall EXCEPT !.handler = "handle_nfc_tap"]
         /\ UNCHANGED <<mess_entries, published, inbox>>
    ELSE /\ process_entry("handle_nfc_tap", message.tag_id, db_ok)
         /\ Broadcast

manual_entry(year, department, roll_number, db_ok) ==
    LET sid == year \o department \o roll_number
    IN  IF ~IsStudent(sid) /\ sid # Guest
        THEN /\ result' = [NoResult EXCEPT !.type = "http", !.status = "404",
                                           !.message = "Student not found"]
             /\ call' = [NoCall EXCEPT !.handler = "manual_entry"]
             /\ UNCHANGED <<mess_entries, published, inbox>>
        ELSE /\ process_entry("manual_entry", sid, db_ok)
             /\ Broadcast

-----------------------------------------------------------------------------
(* The mess specification: the two entry points under a moving clock *)

TzEast == 5 * 3600 + 30 * 60

TimePoints == { Hm(1, 0), Hm(7, 30), Hm(10, 0), Hm(10, 0) + 1, Hm(12, 30) }

FirstTime == CHOOSE t \in TimePoints : \A u \in TimePoints : t <= u
LaterTimes(t) == { u \in TimePoints : u > t }
NextTime(t) == CHOOSE u \in LaterTimes(t) : \A w \in LaterTimes(t) : u <= w

\* the forms submitted: a stored student, an unknown identity, the guest
Forms == { <<Str2022, StrKUCP, Str1033>>, <<Str2022, StrKUCP, Str9999>>,
           <<StrIIIT, StrKOTA, StrUSER>> }

Message(type, tag_id) == [type |-> type, tag_id |-> tag_id]
TagMessages == { Message("tag", Id1033), Message("tag", Id9999),
                 Message("tag", Guest), Message("tag", None),
                 Message("tap", None) }

InitMessVars ==
    /\ tod = FirstTime
    /\ day = 1
    /\ TESTING \in BOOLEAN
    /\ tz_offset \in {0, TzEast}
    /\ mess_entries = EmptyBag
    /\ result = NoResult
    /\ published = NoResult
    /\ call = NoCall

ClockAdvance ==
    /\ IF LaterTimes(tod) # {}
       THEN tod' = NextTime(tod) /\ day' = day
       ELSE day < MaxDay /\ tod' = FirstTime /\ day' = day + 1
    /\ UNCHANGED <<TESTING, tz_offset, mess_entries, result, published, call>>
    /\ UNCHANGED <<gateVars, lockVars, otherVars>>

ManualEntry ==
    /\ BagCardinality(mess_entries) < MaxEntries
    /\ \E form \in Forms, db_ok \in BOOLEAN :
          manual_entry(form[1], form[2], form[3], db_ok)
    /\ UNCHANGED <<tod, day, TESTING, tz_offset, active_connections, sending>>
    /\ UNCHANGED <<gateVars, lockVars, ifaceVars, xferVars, codecVars>>

NfcTap ==
    /\ BagCardinality(mess_entries) < MaxEntries
    /\ \E message \in TagMessages, db_ok \in BOOLEAN :
          handle_nfc_tap(message, db_ok)
    /\ UNCHANGED <<tod, day, TESTING, tz_offset, active_connections, sending>>
    /\ UNCHANGED <<gateVars, lockVars, ifaceVars, xferVars, codecVars>>

-----------------------------------------------------------------------------
(* config.py and the transport of nfc_handler.py *)

debounce_time == 3
STUDENT_DATA_PAGE == 4
LOCK_PAGE == 40
LOCK_DATA == <<255, 255, 255, 189>>
CMD_GET_UID == <<255, 202, 0, 0, 0>>
CMD_DISABLE_BEEP == <<255, 0, 82, 0, 0>>
CMD_BEEP_SUCCESS == <<255, 0, 64, 1, 4, 1, 1, 2, 2>>

ReadApdu(page, n) == <<255, 176, 0, page, n>>
WriteApdu(page, data) == <<255, 214, 0, page, 4>> \o data

\* What connection.transmit does for one command: "ok" answers 90 00 with the
\* data, "fail" answers another status word with no data, "lost" raises.
Transmit(outcome, data) ==
    CASE outcome = "ok"   -> [raised |-> FALSE, sw1 |-> 144, sw2 |-> 0, data |-> data]
      [] outcome = "fail" -> [raised |-> FALSE, sw1 |-> 99, sw2 |-> 0, data |-> <<>>]
      [] OTHER            -> [raised |-> TRUE, sw1 |-> 0, sw2 |-> 0, data |-> <<>>]

send_command_Sw1Only(resp) ==
    IF resp.raised THEN [success |-> FALSE, data |-> None]
    ELSE IF resp.sw1 = 144
         THEN [success |-> TRUE, data |-> resp.data]
         ELSE [success |-> FALSE, data |-> None]

send_command(resp) ==
    IF resp.raised THEN [success |-> FALSE, data |-> None]
    ELSE IF resp.sw1 = 144 /\ resp.sw2 = 0
         THEN [success |-> TRUE, data |-> resp.data]
         ELSE [success |-> FALSE, data |-> None]

-----------------------------------------------------------------------------
(* The identity codec of nfc_handler.py *)

Min(a, b) == IF a < b THEN a ELSE b

Printable_Wide(b) == b <= 126

Printable(b) == 32 <= b /\ b <= 126

\* data_bytes[start:start + length] with the bytes outside 32..126 dropped
extract_ascii(data_bytes, start, length) ==
    SelectSeq(SubSeq(data_bytes, start + 1, Min(start + length, Len(data_bytes))),
              Printable)

\* str.strip() on a string of printable ASCII: the space is its only whitespace
RECURSIVE lstrip(_)
lstrip(str) ==
    IF str # <<>> /\ Head(str) = 32 THEN lstrip(Tail(str)) ELSE str

RECURSIVE rstrip(_)
rstrip(str) ==
    IF str # <<>> /\ str[Len(str)] = 32
    THEN rstrip(SubSeq(str, 1, Len(str) - 1)) ELSE str

strip(str) == rstrip(lstrip(str))

Truthy(seq) == seq # None /\ seq # <<>>

Unreadable_Never(student_id) == FALSE

\* "if not student_id:" / "if not student_data:" after the identity read
Unreadable(student_id) == ~Truthy(student_id)

read_student_data(resp) ==
    LET r == send_command(resp)
    IN  IF ~r.success \/ ~Truthy(r.data) \/ Len(r.data) < 12 THEN None
        ELSE LET year == extract_ascii(r.data, 0, 4)
                 code == extract_ascii(r.data, 4, 4)
                 sid  == extract_ascii(r.data, 8, 4)
                 res  == strip(year \o code \o sid)
             IN  IF res # <<>> THEN res ELSE None

-----------------------------------------------------------------------------
(* The tag: what a write does to the lock page *)

RECURSIVE BitOr(_, _)
BitOr(a, b) ==
    IF a = 0 THEN b
    ELSE IF b = 0 THEN a
    ELSE (IF a % 2 = 1 \/ b % 2 = 1 THEN 1 ELSE 0) + 2 * BitOr(a \div 2, b \div 2)

\* lock bits are one-time programmable: a write can set bits, never clear them
OrPage(old, data) == [i \in 1..4 |-> BitOr(old[i], data[i])]

\* the lock page after a write command with the given outcome; "nostick" is a
\* write the reader acknowledges with 90 00 and the tag does not hold
LockPageAfter(old, data, outcome) ==
    IF outcome = "ok" THEN OrPage(old, data) ELSE old

WriteTransmit(outcome) ==
    Transmit(IF outcome = "nostick" THEN "ok" ELSE outcome, <<>>)

IsLocked(page) == page[2] = 255 /\ page[3] = 255

\* nfc_handler.process_lock: [ret, cmds, page]
process_lock(page, read_outcome, write_outcome) ==
    LET rd == send_command(Transmit(read_outcome, page))
        read_apdu == ReadApdu(LOCK_PAGE, 4)
        write_apdu == WriteApdu(LOCK_PAGE, LOCK_DATA)
    IN  IF rd.success /\ Truthy(rd.data) /\ Len(rd.data) >= 3
           /\ rd.data[2] = 255 /\ rd.data[3] = 255
        THEN [ret |-> TRUE, cmds |-> <<read_apdu>>, page |-> page]
        ELSE [ret |-> send_command(WriteTransmit(write_outcome)).success,
              cmds |-> <<read_apdu, write_apdu>>,
              page |-> LockPageAfter(page, LOCK_DATA, write_outcome)]

-----------------------------------------------------------------------------
(* nfc_handler.GateObserver *)

MaxTime == 4
MaxQueue == 2
MaxGateEntries == 2

Readers == {"R1"}
UIDs == {"U1", "U2"}
NoReader == "None"

Page7 == <<0, 0, 0, 0>>
Blank12 == <<0, 0, 0, 0, 0, 0, 0, 0, 0, 0, 0, 0>>
\* pages 0x04..0x07 as a 16-byte read returns them
TagImages == { Id1033 \o Page7, Id9999 \o Page7, Guest \o Page7, Blank12 \o Page7 }
UnlockedPage == <<0, 0, 0, 0>>

DirectionOf(cfg, reader_name) ==
    IF reader_name = cfg.in_reader THEN "in"
    ELSE IF reader_name = cfg.out_reader THEN "out"
    ELSE IF cfg.in_reader = NoReader THEN "in"
    ELSE IF cfg.out_reader = NoReader THEN "out"
    ELSE "unknown"

ConfigAfter_Reassigns(cfg, reader_name) ==
    IF reader_name = cfg.in_reader \/ reader_name = cfg.out_reader THEN cfg
    ELSE IF cfg.in_reader = NoReader THEN [cfg EXCEPT !.in_reader = reader_name]
    ELSE [cfg EXCEPT !.out_reader = reader_name]

ConfigAfter(cfg, reader_name) ==
    IF reader_name = cfg.in_reader \/ reader_name = cfg.out_reader THEN cfg
    ELSE IF cfg.in_reader = NoReader THEN [cfg EXCEPT !.in_reader = reader_name]
    ELSE IF cfg.out_reader = NoReader THEN [cfg EXCEPT !.out_reader = reader_name]
    ELSE cfg

Debounced_Never(last, uid, t) == FALSE

DebounceSkip_Inverted(last, t) == t - last > debounce_time

DebounceSkip(last, t) == t - last < debounce_time

Debounced(last, uid, t) ==
    uid \in DOMAIN last /\ DebounceSkip(last[uid], t)

Stamp(last, uid, t) ==
    [u \in DOMAIN last \cup {uid} |-> IF u = uid THEN t ELSE last[u]]

SkipKeeps_Restamps(last, uid, t) == Stamp(last, uid, t)

\* "return # Skip" comes before "last_scanned_uid[card_uid] = now"
SkipKeeps(last, uid, t) == last

GateStatus(student_id) ==
    IF IsStudent(student_id) \/ student_id = Guest THEN "success" ELSE "warning"

NoMessage == [type |-> "none", tag_id |-> None, direction |-> "none",
              student_id |-> None, status |-> "none", latest |-> FALSE]

EventData(direction, student_id) ==
    [type |-> "tap", tag_id |-> None, direction |-> direction,
     student_id |-> student_id, status |-> GateStatus(student_id),
     latest |-> TRUE]

\* What the environment does during one run of process_card: whether
\* connect() succeeds, the outcome of the UID read, of the page-4 read, of the
\* lock-page read and write, and of the two database calls ("fail": the INSERT
\* of log_entry fails; "raise_before": log_entry raises while creating the
\* table; "raise_after": log_system_message raises), and whether
\* run_coroutine_threadsafe accepts the coroutine (it raises once the loop is
\* closed; only PublishEnvs has that case).
AllEnvs ==
    { e \in [connect : BOOLEAN, uid : {"ok", "fail", "lost"},
             data : {"ok", "fail"}, lock_read : {"ok", "fail"},
             lock_write : {"ok", "fail"},
             db : {"ok", "fail", "raise_before", "raise_after"},
             publish : {"ok"}] :
        \* one choice for each step the run does not reach
        /\ (~e.connect \/ e.uid # "ok" \/ e.data # "ok")
              => (e.lock_read = "ok" /\ e.lock_write = "ok" /\ e.db = "ok")
        /\ (~e.connect \/ e.uid # "ok") => e.data = "ok"
        /\ ~e.connect => e.uid = "ok" }

Disconnects_Never(created) == FALSE

\* the finally clause: "if connection:" then connection.disconnect(), errors
\* of disconnect() swallowed; connection is None until createConnection returns
Disconnects(created) == created

\* One run of process_card as a function of the state it reads and of the
\* environment.  cmds are the frames passed to connection.transmit, in order.
\* The results of CMD_DISABLE_BEEP and CMD_BEEP_SUCCESS are not looked at.
process_card_run(cfg, last, t, mem, reader, uid, e) ==
    LET direction == DirectionOf(cfg, reader)
        base == [direction |-> direction, outcome |-> "connect_error",
                 uid_read |-> FALSE, accepted |-> FALSE, cmds |-> <<>>,
                 last |-> last, page |-> mem.lock, student_id |-> None,
                 status |-> "none", logged |-> FALSE, message |-> NoMessage,
                 disconnected |-> Disconnects(TRUE)]
        uidr == send_command(Transmit(e.uid, uid))
        student_id == read_student_data(Transmit(e.data, mem.data))
        lk == process_lock(mem.lock, e.lock_read, e.lock_write)
        c1 == <<CMD_GET_UID>>
        c3 == c1 \o <<CMD_DISABLE_BEEP>>
        c4 == c3 \o <<ReadApdu(STUDENT_DATA_PAGE, 16)>>
        c5 == c4 \o lk.cmds
    IN  IF ~e.connect THEN base
        ELSE IF ~uidr.success
        THEN [base EXCEPT !.outcome = "uid_failed", !.cmds = c1]
        ELSE IF Debounced(last, uid, t)
        THEN [base EXCEPT !.outcome = "skipped", !.uid_read = TRUE, !.cmds = c1,
                          !.last = SkipKeeps(last, uid, t)]
        ELSE IF Unreadable(student_id)
        THEN [base EXCEPT !.outcome = "unreadable", !.uid_read = TRUE,
                          !.accepted = TRUE, !.cmds = c4,
                          !.last = Stamp(last, uid, t)]
        ELSE IF e.db \in {"raise_before", "raise_after"}
        THEN [base EXCEPT !.outcome = "error", !.uid_read = TRUE,
                          !.accepted = TRUE, !.cmds = c5,
                          !.last = Stamp(last, uid, t), !.page = lk.page,
                          !.student_id = student_id,
                          !.status = GateStatus(student_id),
                          !.logged = (e.db = "raise_after")]
        ELSE IF e.publish = "raise"
        THEN [base EXCEPT !.outcome = "publish_failed", !.uid_read = TRUE,
                          !.accepted = TRUE,
                          !.cmds = c5 \o <<CMD_BEEP_SUCCESS>>,
                          !.last = Stamp(last, uid, t), !.page = lk.page,
                          !.student_id = student_id,
                          !.status = GateStatus(student_id),
                          !.logged = (e.db = "ok")]
        ELSE [base EXCEPT !.outcome = "done", !.uid_read = TRUE,
                          !.accepted = TRUE,
                          !.cmds = c5 \o <<CMD_BEEP_SUCCESS>>,
                          !.last = Stamp(last, uid, t), !.page = lk.page,
                          !.student_id = student_id,
                          !.status = GateStatus(student_id),
                          !.logged = (e.db = "ok"),
                          !.message = EventData(direction, student_id)]

\* removed: a removal of the card was reported since its last insertion;
\* premoved: one was reported between the insertion before and the last one
NoEvents == [t |-> -1, accepted |-> FALSE, pt |-> -1, paccepted |-> FALSE,
             removed |-> FALSE, premoved |-> FALSE]

NoTap == [uid |-> "none", reader |-> "none", direction |-> "none", outcome |-> "none", uid_read |-> FALSE,
          accepted |-> FALSE, cmds |-> <<>>, student_id |-> None,
          status |-> "none", logged |-> FALSE, scheduled |-> FALSE,
          decision |-> "none", opened |-> FALSE, closed |-> FALSE]

Superseded(queue) == [i \in 1..Len(queue) |-> [queue[i] EXCEPT !.latest = FALSE]]

\* GateObserver.update for one inserted card (removed cards are ignored)
process_card(reader, uid, e) ==
    \E run \in {process_card_run(reader_config, last_scanned_uid, now,
                                 tag_mem[uid], reader, uid, e)} :
        /\ reader_config' = ConfigAfter(reader_config, reader)
        /\ last_scanned_uid' = run.last
        /\ tag_mem' = [tag_mem EXCEPT ![uid].lock = run.page]
        /\ entries' = IF run.logged
                      THEN entries (+) SetToBag({[direction |-> run.direction,
                                                  STUDENT_ID |-> run.student_id]})
                      ELSE entries
        /\ loop_queue' = IF run.message # NoMessage
                         THEN Append(Superseded(loop_queue), run.message)
                         ELSE Superseded(loop_queue)
        /\ tap' = [uid |-> uid, reader |-> reader, direction |-> run.direction,
                   outcome |-> run.outcome, uid_read |-> run.uid_read,
                   accepted |-> run.accepted, cmds |-> run.cmds,
                   student_id |-> run.student_id, status |-> run.status,
                   logged |-> run.logged,
                   scheduled |-> (run.message # NoMessage),
                   decision |-> IF run.message # NoMessage THEN "pending"
                                ELSE "none",
                   opened |-> (run.outcome # "connect_error"),
                   closed |-> run.disconnected]

\* no tap handed over yet: pending lines up with loop_queue
NoBridge == [pending |-> <<>>, handled |-> [u \in UIDs |-> 0],
             count |-> [u \in UIDs |-> 0]]

InitGateVars ==
    /\ bridge = NoBridge
    /\ now = 0
    /\ last_scanned_uid = [u \in {} |-> 0]
    /\ reader_config = [in_reader |-> NoReader, out_reader |-> NoReader]
    /\ tag_mem \in { m \in [UIDs -> [data : TagImages, lock : {UnlockedPage}]] :
                        /\ m["U1"].data = Id1033 \o Page7
                        /\ m["U2"].data \in {Id9999 \o Page7, Blank12 \o Page7} }
    /\ loop_queue = <<>>
    /\ entries = EmptyBag
    /\ tap = NoTap
    /\ watch = [u \in UIDs |-> NoEvents]

Tick ==
    /\ now < MaxTime
    /\ now' = now + 1
    /\ UNCHANGED <<last_scanned_uid, reader_config, tag_mem, loop_queue,
                   entries, tap, watch, bridge>>
    /\ UNCHANGED <<messVars, lockVars, otherVars>>

CardInserted ==
    /\ Len(loop_queue) < MaxQueue
    /\ BagCardinality(entries) < MaxGateEntries
    /\ \E reader \in Readers, uid \in UIDs, e \in AllEnvs :
          process_card(reader, uid, e)
    /\ UNCHANGED <<now, watch, bridge>>
    /\ UNCHANGED <<messVars, lockVars, otherVars>>

NextIndex_Last(queue) == Len(queue)

\* the event loop runs its ready callbacks first in, first out
NextIndex(queue) == 1

Without(queue, i) == SubSeq(queue, 1, i - 1) \o SubSeq(queue, i + 1, Len(queue))

\* the coroutine scheduled at place i runs: handle_nfc_tap returns before its
\* first await unless the message is of type "tag"
Consume(i, db_ok) ==
    /\ handle_nfc_tap(loop_queue[i], db_ok)
    /\ loop_queue' = Without(loop_queue, i)
    /\ tap' = IF loop_queue[i].latest
              THEN [tap EXCEPT !.decision = result'.status]
              ELSE tap

LoopRuns ==
    /\ loop_queue # <<>>
    /\ \E db_ok \in BOOLEAN : Consume(NextIndex(loop_queue), db_ok)
    /\ UNCHANGED <<now, last_scanned_uid, reader_config, tag_mem, entries,
                   watch, bridge>>
    /\ UNCHANGED <<tod, day, TESTING, tz_offset, active_connections, sending>>
    /\ UNCHANGED <<lockVars, ifaceVars, xferVars, codecVars>>

\* The same insertion events with the two latest events of each UID kept:
\* an event counts once its UID was read.  The tag answers every command; the
\* only failure is that of the UID read.
QuietEnvs == { e \in AllEnvs : /\ e.connect /\ e.data = "ok" /\ e.lock_read = "ok"
                               /\ e.lock_write = "ok" /\ e.db = "ok" }

Observed(w, t, accepted) ==
    [t |-> t, accepted |-> accepted, pt |-> w.t, paccepted |-> w.accepted,
     removed |-> FALSE, premoved |-> w.removed]

CardInsertedWatched ==
    /\ Len(loop_queue) < MaxQueue
    /\ BagCardinality(entries) < MaxGateEntries
    /\ \E reader \in Readers, uid \in UIDs, e \in QuietEnvs :
          /\ process_card(reader, uid, e)
          /\ watch' = IF tap'.uid_read
                      THEN [watch EXCEPT ![uid] = Observed(watch[uid], now,
                                                          tap'.accepted)]
                      ELSE watch
    /\ UNCHANGED <<now, bridge>>
    /\ UNCHANGED <<messVars, lockVars, otherVars>>

\* the readers attached when three are
ReaderNames == {"R1", "R2", "R3"}

\* an insertion event on any of three readers; the direction is settled
\* before createConnection, so a card that cannot be connected counts
CardInsertedAnyReader ==
    /\ Len(loop_queue) < MaxQueue
    /\ BagCardinality(entries) < MaxGateEntries
    /\ \E reader \in ReaderNames, uid \in UIDs :
        \E e \in { f \in AllEnvs : f.uid = "ok" /\ f.data = "ok" /\ f.db = "ok"
                                    /\ f.lock_read = "ok" /\ f.lock_write = "ok" } :
          process_card(reader, uid, e)
    /\ UNCHANGED <<now, watch, bridge>>
    /\ UNCHANGED <<messVars, lockVars, otherVars>>

\* the tag answers every command; handing the outcome to the loop may fail
PublishEnvs == { [e EXCEPT !.publish = p] : e \in QuietEnvs, p \in {"ok", "raise"} }

CardInsertedPublishing ==
    /\ Len(loop_queue) < MaxQueue
    /\ BagCardinality(entries) < MaxGateEntries
    /\ \E reader \in Readers, uid \in UIDs, e \in PublishEnvs :
          process_card(reader, uid, e)
    /\ UNCHANGED <<now, watch, bridge>>
    /\ UNCHANGED <<messVars, lockVars, otherVars>>

\* GateObserver.update for one removed card, the one last put on the reader:
\* "if removedcards: pass"
GateCardRemoved ==
    /\ \E uid \in UIDs :
          /\ tap.uid = uid /\ watch[uid].t >= 0 /\ ~watch[uid].removed
          /\ watch' = [watch EXCEPT ![uid].removed = TRUE]
    /\ UNCHANGED <<now, last_scanned_uid, reader_config, tag_mem, loop_queue,
                   entries, tap, bridge>>
    /\ UNCHANGED <<messVars, lockVars, otherVars>>

\* The same events with every tap handed to the event loop numbered per UID
CardInsertedBridged ==
    /\ Len(loop_queue) < MaxQueue
    /\ BagCardinality(entries) < MaxGateEntries
    /\ \E reader \in Readers, uid \in UIDs, e \in QuietEnvs :
          /\ process_card(reader, uid, e)
          /\ bridge' = IF tap'.scheduled
                       THEN [bridge EXCEPT
                               !.count[uid] = @ + 1,
                               !.pending = Append(@, [uid |-> uid,
                                                      n |-> bridge.count[uid] + 1])]
                       ELSE bridge
    /\ UNCHANGED <<now, watch>>
    /\ UNCHANGED <<messVars, lockVars, otherVars>>

LoopRunsBridged ==
    /\ loop_queue # <<>>
    /\ \E db_ok \in BOOLEAN, i \in {NextIndex(loop_queue)} :
          /\ Consume(i, db_ok)
          /\ bridge' = [bridge EXCEPT
                          !.pending = Without(@, i),
                          !.handled[bridge.pending[i].uid] = bridge.pending[i].n]
    /\ UNCHANGED <<now, last_scanned_uid, reader_config, tag_mem, entries, watch>>
    /\ UNCHANGED <<tod, day, TESTING, tz_offset, active_connections, sending>>
    /\ UNCHANGED <<lockVars, ifaceVars, xferVars, codecVars>>

-----------------------------------------------------------------------------
(* The tag under the lock routines: pages 0x02, 0x28, 0xE2 and 0xE4 *)

STATIC_LOCK_PAGE == 2
DYNAMIC_LOCK_PAGE == 226
CONFIG_PAGE == 228
CFGLCK == 64
FirstPage == 0
DynamicReadPage == 224
ReadLength == 16

ZeroPage == <<0, 0, 0, 0>>

\* a tag out of the box: serial and internal byte in page 0x02, no lock bit set
FreshTag ==
    (STATIC_LOCK_PAGE :> <<72, 0, 0, 0>>) @@ (LOCK_PAGE :> ZeroPage)
    @@ (DYNAMIC_LOCK_PAGE :> ZeroPage) @@ (CONFIG_PAGE :> <<0, 5, 0, 0>>)

PageOf(mem, page) == IF page \in DOMAIN mem THEN mem[page] ELSE ZeroPage

\* the 16 bytes a read command returns: four pages from the start page
Read16(mem, start) ==
    PageOf(mem, start) \o PageOf(mem, start + 1)
    \o PageOf(mem, start + 2) \o PageOf(mem, start + 3)

\* the memory after a write command: bytes 0-1 of page 0x02 are read-only and
\* lock bits can only be set; the configuration page takes the bytes written
TagWrite(mem, page, data, outcome) ==
    IF outcome # "ok" THEN mem
    ELSE [mem EXCEPT ![page] =
            IF page = CONFIG_PAGE THEN data
            ELSE IF page = STATIC_LOCK_PAGE
                 THEN <<@[1], @[2], BitOr(@[3], data[3]), BitOr(@[4], data[4])>>
                 ELSE OrPage(@, data)]

ReadOutcomes == {"ok", "fail", "lost"}
WriteOutcomes == {"ok", "nostick", "fail", "lost"}

StatusOk(resp) == ~resp.raised /\ resp.sw1 = 144 /\ resp.sw2 = 0

NoLocal == [page_02 |-> None, page_e4 |-> None, attempt |-> 0]

NotVerified == [before |-> FALSE, now |-> FALSE]

Finish(report) == lk_pc' = "idle" /\ lk_result' = report

Goto(label) == lk_pc' = label /\ lk_result' = lk_result

InitLockVars ==
    /\ lk_script = "none"
    /\ lk_pc = "idle"
    /\ lk_mem = FreshTag
    /\ lk_cmds = <<>>
    /\ lk_local = NoLocal
    /\ lk_result = "none"
    /\ lk_verified = NotVerified

-----------------------------------------------------------------------------
(* The per-tap lock step: nfc_handler.process_lock, interface.check_and_lock_card *)

\* interface.send_command: the data of the answer is returned with any status
ifc_send_command(resp) ==
    IF resp.raised THEN [success |-> FALSE, data |-> None]
    ELSE [success |-> resp.sw1 = 144 /\ resp.sw2 = 0, data |-> resp.data]

\* interface.check_and_lock_card: [ret, cmds, page, verified]; no_data is
\* what printing the read-back does when the verifying read returned no data
check_and_lock_card(page, read_outcome, write_outcome, verify_outcome, no_data) ==
    LET read_apdu == ReadApdu(LOCK_PAGE, 4)
        write_apdu == WriteApdu(LOCK_PAGE, LOCK_DATA)
        rd == ifc_send_command(Transmit(read_outcome, page))
        wr == ifc_send_command(WriteTransmit(write_outcome))
        after == LockPageAfter(page, LOCK_DATA, write_outcome)
        vr == ifc_send_command(Transmit(verify_outcome, after))
    IN  IF ~rd.success \/ ~Truthy(rd.data) \/ Len(rd.data) < 4
        THEN [ret |-> "False", cmds |-> <<read_apdu>>, page |-> page,
              verified |-> FALSE]
        ELSE IF rd.data[2] = 255 /\ rd.data[3] = 255
        THEN [ret |-> "True", cmds |-> <<read_apdu>>, page |-> page,
              verified |-> TRUE]
        ELSE IF ~wr.success
        THEN [ret |-> "False", cmds |-> <<read_apdu, write_apdu>>, page |-> after,
              verified |-> FALSE]
        ELSE IF vr.success /\ vr.data[2] = 255 /\ vr.data[3] = 255
        THEN [ret |-> "True", cmds |-> <<read_apdu, write_apdu, read_apdu>>,
              page |-> after, verified |-> TRUE]
        ELSE [ret |-> IF vr.data = None THEN no_data ELSE "False",
              cmds |-> <<read_apdu, write_apdu, read_apdu>>,
              page |-> after, verified |-> FALSE]

LockStep(name, run) ==
    /\ lk_script' = name
    /\ lk_pc' = "idle"
    /\ lk_cmds' = run.cmds
    /\ lk_mem' = [lk_mem EXCEPT ![LOCK_PAGE] = run.page]
    /\ lk_local' = NoLocal
    /\ lk_result' = run.ret
    /\ lk_verified' = [before |-> lk_verified.now,
                       now |-> lk_verified.now \/ run.verified]
    /\ UNCHANGED <<messVars, gateVars, otherVars>>

ProcessLock ==
    /\ lk_pc = "idle"
    /\ \E read_outcome \in ReadOutcomes, write_outcome \in WriteOutcomes :
         LET run == process_lock(lk_mem[LOCK_PAGE], read_outcome, write_outcome)
         IN  LockStep("process_lock",
                      [ret |-> IF run.ret THEN "True" ELSE "False",
                       cmds |-> run.cmds, page |-> run.page,
                       verified |-> run.ret /\ Len(run.cmds) = 1])

CheckAndLockCard ==
    /\ lk_pc = "idle"
    /\ \E read_outcome \in ReadOutcomes, write_outcome \in WriteOutcomes,
          verify_outcome \in ReadOutcomes, no_data \in {"False", "raised"} :
         LockStep("check_and_lock_card",
                  check_and_lock_card(lk_mem[LOCK_PAGE], read_outcome,
                                      write_outcome, verify_outcome, no_data))

-----------------------------------------------------------------------------
(* test/lock_card.py, one action for each command the script sends *)

StaticLockData_Blind(page_02) == <<0, 0, 255, 255>>

StaticLockData_OffByOne(page_02) == <<page_02[2], page_02[3], 255, 255>>

StaticLockData(page_02) == <<page_02[1], page_02[2], 255, 255>>

DynamicLockData == <<255, 255, 255, 0>>

LockCard_Start ==
    /\ lk_pc = "idle"
    /\ \E response \in {"LOCK", "no"} :
         IF response # "LOCK" THEN Finish("cancelled")
         ELSE lk_pc' = "read_02" /\ lk_result' = "none"
    /\ lk_script' = "lock_card"
    /\ lk_cmds' = <<>>
    /\ lk_local' = NoLocal
    /\ UNCHANGED <<lk_mem, lk_verified, messVars, gateVars, otherVars>>

LockCard_Read02 ==
    /\ lk_script = "lock_card" /\ lk_pc = "read_02"
    /\ \E outcome \in ReadOutcomes, answer \in {"yes", "no"} :
         LET resp == Transmit(outcome, Read16(lk_mem, FirstPage))
             page_02 == SubSeq(resp.data, 9, 12)
         IN  IF resp.raised THEN Finish("removed") /\ UNCHANGED lk_local
             ELSE IF ~StatusOk(resp) THEN Finish("aborted") /\ UNCHANGED lk_local
             ELSE /\ lk_local' = [lk_local EXCEPT !.page_02 = page_02]
                  /\ IF (page_02[3] # 0 \/ page_02[4] # 0) /\ answer # "yes"
                     THEN Finish("cancelled")
                     ELSE Goto("static_write")
    /\ lk_cmds' = Append(lk_cmds, ReadApdu(FirstPage, ReadLength))
    /\ UNCHANGED <<lk_script, lk_mem, lk_verified, messVars, gateVars, otherVars>>

WriteAttempts_Three == 2 + 1

\* "for attempt in range(2)": the passes of a write loop
WriteAttempts == 2

\* one pass of a "for attempt in range(2)" write loop of lock_card.py
LockCard_WriteTwice(page, data, outcome, done) ==
    LET resp == WriteTransmit(outcome)
    IN  /\ lk_cmds' = Append(lk_cmds, WriteApdu(page, data))
        /\ lk_mem' = TagWrite(lk_mem, page, data, outcome)
        /\ IF resp.raised THEN Finish("removed") /\ UNCHANGED lk_local
           ELSE IF ~StatusOk(resp) THEN Finish("aborted") /\ UNCHANGED lk_local
           ELSE IF lk_local.attempt + 1 < WriteAttempts
                THEN /\ lk_local' = [lk_local EXCEPT !.attempt = @ + 1]
                     /\ Goto(lk_pc)
                ELSE /\ lk_local' = [lk_local EXCEPT !.attempt = 0]
                     /\ Goto(done)
        /\ UNCHANGED <<lk_script, lk_verified, messVars, gateVars, otherVars>>

StaticLockBytes == {3, 4}

DynamicLockBytes == {1, 2, 3}

\* a read-back of lock_card.py: the page is cut from the answer whatever its
\* status, so an answer without data raises on the first index
LockCard_Verify(start, lock_bytes, done) ==
    /\ \E outcome \in ReadOutcomes :
         LET resp == Transmit(outcome, Read16(lk_mem, start))
             page == SubSeq(resp.data, 9, 12)
         IN  IF resp.raised THEN Finish("removed")
             ELSE IF Len(resp.data) < 12 THEN Finish("error")
             ELSE IF \E i \in lock_bytes : page[i] # 255 THEN Finish("aborted")
             ELSE Goto(done)
    /\ lk_cmds' = Append(lk_cmds, ReadApdu(start, ReadLength))
    /\ UNCHANGED <<lk_script, lk_mem, lk_local, lk_verified, messVars, gateVars, otherVars>>

StaticVerified(page) == \A i \in StaticLockBytes : page[i] = 255

LockCard_StaticWrite ==
    /\ lk_script = "lock_card" /\ lk_pc = "static_write"
    /\ \E outcome \in WriteOutcomes :
         LockCard_WriteTwice(STATIC_LOCK_PAGE, StaticLockData(lk_local.page_02),
                             outcome, "static_verify")

LockCard_StaticVerify ==
    /\ lk_script = "lock_card" /\ lk_pc = "static_verify"
    /\ LockCard_Verify(FirstPage, StaticLockBytes, "dynamic_write")

LockCard_DynamicWrite ==
    /\ lk_script = "lock_card" /\ lk_pc = "dynamic_write"
    /\ \E outcome \in WriteOutcomes :
         LockCard_WriteTwice(DYNAMIC_LOCK_PAGE, DynamicLockData, outcome,
                             "dynamic_verify")

LockCard_DynamicVerify ==
    /\ lk_script = "lock_card" /\ lk_pc = "dynamic_verify"
    /\ LockCard_Verify(DynamicReadPage, DynamicLockBytes, "config_read")

LockCard_ConfigRead ==
    /\ lk_script = "lock_card" /\ lk_pc = "config_read"
    /\ \E outcome \in ReadOutcomes :
         LET resp == Transmit(outcome, Read16(lk_mem, CONFIG_PAGE))
             page_e4 == SubSeq(resp.data, 1, 4)
         IN  IF resp.raised THEN Finish("removed") /\ UNCHANGED lk_local
             ELSE IF ~StatusOk(resp) THEN Finish("aborted") /\ UNCHANGED lk_local
             ELSE /\ lk_local' = [lk_local EXCEPT !.page_e4 =
                                     [page_e4 EXCEPT ![1] = BitOr(@, CFGLCK)]]
                  /\ Goto("config_write")
    /\ lk_cmds' = Append(lk_cmds, ReadApdu(CONFIG_PAGE, ReadLength))
    /\ UNCHANGED <<lk_script, lk_mem, lk_verified, messVars, gateVars, otherVars>>

LockCard_ConfigWrite ==
    /\ lk_script = "lock_card" /\ lk_pc = "config_write"
    /\ \E outcome \in WriteOutcomes :
         LET resp == WriteTransmit(outcome)
         IN  /\ lk_mem' = TagWrite(lk_mem, CONFIG_PAGE, lk_local.page_e4, outcome)
             /\ IF resp.raised THEN Finish("removed")
                ELSE IF StatusOk(resp) THEN Goto("config_verify")
                ELSE Finish("complete")
    /\ lk_cmds' = Append(lk_cmds, WriteApdu(CONFIG_PAGE, lk_local.page_e4))
    /\ UNCHANGED <<lk_script, lk_local, lk_verified, messVars, gateVars, otherVars>>

LockCard_ConfigVerify ==
    /\ lk_script = "lock_card" /\ lk_pc = "config_verify"
    /\ \E outcome \in ReadOutcomes :
         LET resp == Transmit(outcome, Read16(lk_mem, CONFIG_PAGE))
         IN  IF resp.raised THEN Finish("removed")
             ELSE IF Len(resp.data) < 1 THEN Finish("error")
             ELSE Finish("complete")
    /\ lk_cmds' = Append(lk_cmds, ReadApdu(CONFIG_PAGE, ReadLength))
    /\ UNCHANGED <<lk_script, lk_mem, lk_local, lk_verified, messVars, gateVars, otherVars>>

-----------------------------------------------------------------------------
(* smart_write.lock_card, one action for each command the function sends *)

\* smart_write.write_page: a lost card counts as a failed write
write_page(outcome) == StatusOk(WriteTransmit(outcome))

SmartWrite_Start ==
    /\ lk_pc = "idle"
    /\ lk_script' = "smart_write"
    /\ lk_pc' = "sw_read_02"
    /\ lk_cmds' = <<>>
    /\ lk_local' = NoLocal
    /\ lk_result' = "none"
    /\ UNCHANGED <<lk_mem, lk_verified, messVars, gateVars, otherVars>>

SmartWrite_Read02 ==
    /\ lk_script = "smart_write" /\ lk_pc = "sw_read_02"
    /\ \E outcome \in ReadOutcomes :
         LET resp == Transmit(outcome, Read16(lk_mem, FirstPage))
         IN  IF resp.raised THEN Finish("raised") /\ UNCHANGED lk_local
             ELSE IF ~StatusOk(resp) THEN Finish("False") /\ UNCHANGED lk_local
             ELSE /\ lk_local' = [lk_local EXCEPT
                                     !.page_02 = SubSeq(resp.data, 9, 12)]
                  /\ Goto("sw_static_write")
    /\ lk_cmds' = Append(lk_cmds, ReadApdu(FirstPage, ReadLength))
    /\ UNCHANGED <<lk_script, lk_mem, lk_verified, messVars, gateVars, otherVars>>

\* one pass of a "for attempt in range(2)" write loop of smart_write.lock_card
SmartWrite_WriteTwice(page, data, outcome, failed, done) ==
    /\ lk_cmds' = Append(lk_cmds, WriteApdu(page, data))
    /\ lk_mem' = TagWrite(lk_mem, page, data, outcome)
    /\ IF ~write_page(outcome) THEN Finish(failed) /\ UNCHANGED lk_local
       ELSE IF lk_local.attempt + 1 < WriteAttempts
            THEN /\ lk_local' = [lk_local EXCEPT !.attempt = @ + 1]
                 /\ Goto(lk_pc)
            ELSE /\ lk_local' = [lk_local EXCEPT !.attempt = 0]
                 /\ Goto(done)
    /\ UNCHANGED <<lk_script, lk_verified, messVars, gateVars, otherVars>>

SmartWrite_StaticWrite ==
    /\ lk_script = "smart_write" /\ lk_pc = "sw_static_write"
    /\ \E outcome \in WriteOutcomes :
         SmartWrite_WriteTwice(STATIC_LOCK_PAGE, StaticLockData(lk_local.page_02),
                               outcome, "False", "sw_dynamic_write")

SmartWrite_DynamicWrite ==
    /\ lk_script = "smart_write" /\ lk_pc = "sw_dynamic_write"
    /\ \E outcome \in WriteOutcomes :
         SmartWrite_WriteTwice(DYNAMIC_LOCK_PAGE, DynamicLockData, outcome,
                               "True", "sw_lock_page_write")

SmartWrite_LockPageWrite ==
    /\ lk_script = "smart_write" /\ lk_pc = "sw_lock_page_write"
    /\ \E outcome \in WriteOutcomes :
         SmartWrite_WriteTwice(LOCK_PAGE, LOCK_DATA, outcome,
                               "True", "sw_config_read")

SmartWrite_ConfigRead ==
    /\ lk_script = "smart_write" /\ lk_pc = "sw_config_read"
    /\ \E outcome \in ReadOutcomes :
         LET resp == Transmit(outcome, Read16(lk_mem, CONFIG_PAGE))
             page_e4 == SubSeq(resp.data, 1, 4)
         IN  IF resp.raised THEN Finish("raised") /\ UNCHANGED lk_local
             ELSE IF ~StatusOk(resp) THEN Finish("True") /\ UNCHANGED lk_local
             ELSE /\ lk_local' = [lk_local EXCEPT !.page_e4 =
                                     [page_e4 EXCEPT ![1] = BitOr(@, CFGLCK)]]
                  /\ Goto("sw_config_write")
    /\ lk_cmds' = Append(lk_cmds, ReadApdu(CONFIG_PAGE, ReadLength))
    /\ UNCHANGED <<lk_script, lk_mem, lk_verified, messVars, gateVars, otherVars>>

SmartWrite_ConfigWrite ==
    /\ lk_script = "smart_write" /\ lk_pc = "sw_config_write"
    /\ \E outcome \in WriteOutcomes :
         /\ lk_mem' = TagWrite(lk_mem, CONFIG_PAGE, lk_local.page_e4, outcome)
         /\ Finish("True")
    /\ lk_cmds' = Append(lk_cmds, WriteApdu(CONFIG_PAGE, lk_local.page_e4))
    /\ UNCHANGED <<lk_script, lk_local, lk_verified, messVars, gateVars, otherVars>>

-----------------------------------------------------------------------------
(* interface.py: StudentCardObserver *)

ifc_read_student_data(resp) ==
    LET r == ifc_send_command(resp)
    IN  IF ~r.success \/ ~Truthy(r.data) \/ Len(r.data) < 12 THEN None
        ELSE LET year == extract_ascii(r.data, 0, 4)
                 code == extract_ascii(r.data, 4, 4)
                 student_id == extract_ascii(r.data, 8, 4)
                 res == year \o code \o student_id
             IN  IF strip(res) # <<>> THEN strip(res) ELSE None

\* What the environment does during one run of _process_card: connect is "ok",
\* "no_card" (connect() raises NoCardException or CardConnectionException) or
\* "none" (createConnection gives no connection and the run ends in the
\* handler of Exception); then the outcome of the UID read, of the page-4
\* read, of the three commands of check_and_lock_card, and of the INSERT.
IfaceEnvs ==
    { e \in [connect : {"ok", "no_card", "none"}, uid : ReadOutcomes,
             data : ReadOutcomes, lock_read : ReadOutcomes,
             lock_write : {"ok", "nostick", "fail"},
             verify : {"ok", "lost"}, no_data : {"False", "raised"},
             db : {"ok", "raise"}] :
        \* one choice for each step the run does not reach
        /\ e.connect # "ok" => e.uid = "ok"
        /\ (e.connect # "ok" \/ e.uid # "ok") => e.data = "ok"
        /\ (e.connect # "ok" \/ e.uid # "ok" \/ e.data # "ok")
              => e.lock_read = "ok"
        /\ (e.connect # "ok" \/ e.uid # "ok" \/ e.data # "ok"
               \/ e.lock_read # "ok") => e.lock_write = "ok"
        /\ (e.connect # "ok" \/ e.uid # "ok" \/ e.data # "ok"
               \/ e.lock_read # "ok" \/ e.lock_write = "fail") => e.verify = "ok"
        /\ e.verify = "ok" => e.no_data = "False"
        /\ (e.connect # "ok" \/ e.uid # "ok" \/ e.data # "ok"
               \/ e.lock_read # "ok" \/ e.lock_write # "ok" \/ e.verify # "ok")
              => e.db = "ok" }

\* the UID of a card as the string get_card_uid returns
toHexString(uid) == IF uid = "U1" THEN <<48, 49>> ELSE <<48, 50>>

ClearsOnRemoval_Never(last) == last

\* update: "if removedcards and self.last_uid: self.last_uid = None"
ClearsOnRemoval(last) == IF last # None THEN None ELSE last

LockSucceeded_Always(ret) == TRUE

\* "lock_success = check_and_lock_card(connection)": the run goes on only
\* when it returned True
LockSucceeded(ret) == ret = "True"

KeepsOnError_Reset(card_uid) == None

\* the handler of Exception: "self.last_uid = card_uid  # Keep UID to prevent
\* error spam"
KeepsOnError(card_uid) == card_uid

\* One run of _process_card as a function of last_uid, of the tag and of the
\* environment: [outcome, last, page, cmds, student_id, logged, created,
\* opened, disconnected, lost]; lost: connection.transmit raised in one of
\* the commands the run sent
_process_card(last, mem, uid, e) ==
    LET card_uid == toHexString(uid)
        uidr == ifc_send_command(Transmit(e.uid, card_uid))
        student_data == ifc_read_student_data(Transmit(e.data, mem.data))
        lk == check_and_lock_card(mem.lock, e.lock_read, e.lock_write,
                                  e.verify, e.no_data)
        c1 == <<CMD_GET_UID>>
        c3 == c1 \o <<CMD_DISABLE_BEEP, ReadApdu(STUDENT_DATA_PAGE, 16)>>
        c4 == c3 \o lk.cmds
        lost_in_lock == \/ e.lock_read = "lost"
                        \/ Len(lk.cmds) = 3 /\ e.verify = "lost"
        base == [outcome |-> "no_connection", last |-> None, page |-> mem.lock,
                 cmds |-> <<>>, uid_read |-> FALSE, student_id |-> None,
                 logged |-> FALSE, created |-> FALSE, opened |-> FALSE,
                 disconnected |-> Disconnects(FALSE), lost |-> FALSE]
        made == [base EXCEPT !.created = TRUE, !.disconnected = Disconnects(TRUE)]
        open == [made EXCEPT !.opened = TRUE]
    IN  IF e.connect = "none" THEN base
        ELSE IF e.connect = "no_card"
        THEN [made EXCEPT !.outcome = "card_removed"]
        ELSE IF ~(uidr.success /\ Truthy(uidr.data))
        THEN [open EXCEPT !.outcome = "uid_failed", !.last = last, !.cmds = c1,
                          !.lost = (e.uid = "lost")]
        ELSE IF card_uid = last
        THEN [open EXCEPT !.outcome = "same_uid", !.last = last, !.cmds = c1,
                          !.uid_read = TRUE]
        ELSE IF Unreadable(student_data)
        THEN [open EXCEPT !.outcome = "unreadable", !.last = card_uid,
                          !.cmds = c3, !.uid_read = TRUE,
                          !.lost = (e.data = "lost")]
        ELSE IF ~LockSucceeded(lk.ret)
        THEN [open EXCEPT !.outcome = IF lk.ret = "raised" THEN "error"
                                      ELSE "lock_failed",
                          !.last = IF lk.ret = "raised"
                                   THEN KeepsOnError(card_uid) ELSE card_uid,
                          !.cmds = c4, !.uid_read = TRUE,
                          !.lost = lost_in_lock,
                          !.page = lk.page, !.student_id = student_data]
        ELSE IF e.db = "raise"
        THEN [open EXCEPT !.outcome = "db_error", !.last = card_uid,
                          !.cmds = c4, !.uid_read = TRUE, !.page = lk.page,
                          !.student_id = student_data]
        ELSE [open EXCEPT !.outcome = "done", !.last = card_uid,
                          !.cmds = c4 \o <<CMD_BEEP_SUCCESS>>,
                          !.uid_read = TRUE, !.page = lk.page,
                          !.student_id = student_data, !.logged = TRUE]

NoIfaceTap == [uid |-> "none", outcome |-> "none", cmds |-> <<>>,
               uid_read |-> FALSE, student_id |-> None, logged |-> FALSE,
               created |-> FALSE, opened |-> FALSE, closed |-> FALSE,
               event |-> "none", after_removal |-> FALSE, lost |-> FALSE,
               processed |-> {}]

\* the run went past "if card_uid == self.last_uid: return"
Processed(run) ==
    run.outcome \in {"unreadable", "lock_failed", "error", "db_error", "done"}

\* StudentCardObserver.update for one inserted card
IfaceCardInserted ==
    /\ program = "interface"
    /\ \E uid \in UIDs \ cards, e \in IfaceEnvs :
        \E run \in {_process_card(last_uid, tag_mem[uid], uid, e)} :
          /\ cards' = cards \cup {uid}
          /\ last_uid' = run.last
          /\ tag_mem' = [tag_mem EXCEPT ![uid].lock = run.page]
          /\ itap' = [uid |-> uid, outcome |-> run.outcome, cmds |-> run.cmds,
                      uid_read |-> run.uid_read,
                      student_id |-> run.student_id, logged |-> run.logged,
                      created |-> run.created, opened |-> run.opened,
                      closed |-> run.disconnected, event |-> "inserted",
                      after_removal |-> (itap.event = "removed"),
                      lost |-> run.lost,
                      processed |-> IF Processed(run)
                                    THEN itap.processed \cup {uid}
                                    ELSE itap.processed \ {uid}]
    /\ UNCHANGED <<program, startup, now, last_scanned_uid, reader_config,
                   loop_queue, entries, tap, watch, bridge>>
    /\ UNCHANGED <<messVars, lockVars, xferVars, codecVars, pubVars>>

\* StudentCardObserver.update for a card that is reported as inserted again
\* while it is seated; itap.processed are the seated cards that a run has
\* processed since they were put on
IfaceCardRepeated ==
    /\ program = "interface"
    /\ \E uid \in cards, e \in IfaceEnvs :
        \E run \in {_process_card(last_uid, tag_mem[uid], uid, e)} :
          /\ last_uid' = run.last
          /\ tag_mem' = [tag_mem EXCEPT ![uid].lock = run.page]
          /\ itap' = [uid |-> uid, outcome |-> run.outcome, cmds |-> run.cmds,
                      uid_read |-> run.uid_read,
                      student_id |-> run.student_id, logged |-> run.logged,
                      created |-> run.created, opened |-> run.opened,
                      closed |-> run.disconnected, event |-> "repeated",
                      after_removal |-> FALSE,
                      lost |-> run.lost,
                      processed |-> IF Processed(run)
                                    THEN itap.processed \cup {uid}
                                    ELSE itap.processed]
    /\ UNCHANGED <<program, startup, cards, now, last_scanned_uid, reader_config,
                   loop_queue, entries, tap, watch, bridge>>
    /\ UNCHANGED <<messVars, lockVars, xferVars, codecVars, pubVars>>

\* StudentCardObserver.update for one removed card
IfaceCardRemoved ==
    /\ program = "interface"
    /\ \E uid \in cards :
          /\ cards' = cards \ {uid}
          /\ last_uid' = ClearsOnRemoval(last_uid)
          /\ itap' = [itap EXCEPT !.event = "removed",
                                  !.processed = @ \ {uid}]
    /\ UNCHANGED <<program, startup>>
    /\ UNCHANGED <<messVars, gateVars, lockVars, xferVars, codecVars, pubVars>>

\* the frames setup_and_configure_reader sends: DISABLE_AUTO_BEEP once the
\* reader is connected, nothing when createConnection or connect raises
setup_and_configure_reader(connect) ==
    IF connect = "ok" THEN <<CMD_DISABLE_BEEP>> ELSE <<>>

\* the frames ReaderManager.__init__ sends: it registers the observer only
ReaderManager_init == <<>>

NotStarted == [done |-> FALSE, cmds |-> <<>>]

\* the monitor is running; the frames of the start are not kept
Started == [done |-> TRUE, cmds |-> <<>>]

\* interface.main up to monitor.addObserver, or main.lifespan up to yield
Startup ==
    /\ ~startup.done
    /\ \E connect \in {"ok", "fail"} :
          startup' = [done |-> TRUE,
                      cmds |-> IF program = "interface"
                               THEN setup_and_configure_reader(connect)
                               ELSE ReaderManager_init]
    /\ UNCHANGED <<program, last_uid, cards, itap>>
    /\ UNCHANGED <<messVars, gateVars, lockVars, xferVars, codecVars, pubVars>>

InitIfaceVars ==
    /\ program = "gate"
    /\ last_uid = None
    /\ cards = {}
    /\ itap = NoIfaceTap
    /\ startup = Started

\* either program of the repository watches the reader
InitObservers ==
    /\ program \in {"gate", "interface"}
    /\ last_uid = None
    /\ cards = {}
    /\ itap = NoIfaceTap
    /\ startup = Started

-----------------------------------------------------------------------------
(* One command on the transport: the two send_command and test_dlock.py *)

\* what the card answers to the reads of test_dlock.py: nothing, or the
\* frame of a page that is not locked, or of one that is: D5 43, the byte
\* that stays 00, then the lock data FF FF FF BD (data[2:6] = 00 FF FF FF)
DlockUnlocked == <<213, 67, 0, 0, 0, 0, 0>>
DlockLocked == <<213, 67, 0, 255, 255, 255, 189>>

\* what connection.transmit can do: raise, or return data and a status word
Responses ==
    { r \in [raised : BOOLEAN, sw1 : {144, 99}, sw2 : {0, 255},
             data : {<<>>, DlockUnlocked, DlockLocked}] :
        r.raised => (r.sw1 = 99 /\ r.sw2 = 0 /\ r.data = <<>>) }

NoResponse == [raised |-> FALSE, sw1 |-> 0, sw2 |-> 0, data |-> <<>>]

NoXfer == [resp |-> NoResponse, nfc |-> [success |-> FALSE, data |-> None],
           ifc |-> [success |-> FALSE, data |-> None], sent |-> FALSE]

\* one command sent through nfc_handler.send_command and through
\* interface.send_command
SendCommand ==
    /\ \E resp \in Responses :
          xfer' = [resp |-> resp, nfc |-> send_command(resp),
                   ifc |-> ifc_send_command(resp), sent |-> TRUE]
    /\ prev_xfer' = xfer
    /\ UNCHANGED dlock
    /\ UNCHANGED <<messVars, gateVars, lockVars, ifaceVars, codecVars, pubVars>>

\* test_dlock.py checks the first status byte only, except after the write
Sw1Ok(resp) == ~resp.raised /\ resp.sw1 = 144

\* python data[2:6]
Slice2To6(data) == SubSeq(data, 3, Min(6, Len(data)))

\* page_data[1] == 0xFF and page_data[2] == 0xFF; "raised" is the IndexError
LockBytesSet(page_data) ==
    IF Len(page_data) < 3 THEN "raised"
    ELSE IF page_data[2] = 255 /\ page_data[3] = 255 THEN "True" ELSE "False"

\* cards put on the reader of test_dlock.py in one session
MaxCards == 3

NoDlock == [pc |-> "idle", cmd |-> "none", resp |-> NoResponse,
            passed |-> FALSE, report |-> "none",
            card_count |-> 0, locked_count |-> 0, already_locked_count |-> 0,
            failed_count |-> 0]

Counted_ExceptAlreadyLocked(d, report) ==
    IF report = "locked" THEN [d EXCEPT !.locked_count = @ + 1]
    ELSE IF report = "failed" THEN [d EXCEPT !.failed_count = @ + 1]
    ELSE d

\* the counter a run bumps where it ends: self.locked_count += 1,
\* self.already_locked_count += 1 or self.failed_count += 1
Counted(d, report) ==
    IF report = "locked" THEN [d EXCEPT !.locked_count = @ + 1]
    ELSE IF report = "already_locked" THEN [d EXCEPT !.already_locked_count = @ + 1]
    ELSE IF report = "failed" THEN [d EXCEPT !.failed_count = @ + 1]
    ELSE d

\* the run goes on to the next command, or ends with the counter it bumps;
\* "self.card_count += 1" is the first statement of a run
DlockAfter(cmd, resp, passed, next, report) ==
    LET d == IF dlock.pc = "idle" THEN [dlock EXCEPT !.card_count = @ + 1]
             ELSE dlock
    IN  dlock' = [Counted(d, report) EXCEPT !.pc = next, !.cmd = cmd,
                                            !.resp = resp, !.passed = passed,
                                            !.report = report]

\* createConnection or connect raises, or the first command is sent
Dlock_DisableAutoPoll ==
    /\ dlock.pc = "idle"
    /\ dlock.card_count < MaxCards
    /\ \/ DlockAfter("CONNECT", NoResponse, FALSE, "idle", "failed")
       \/ \E resp \in Responses :
          IF Sw1Ok(resp) THEN DlockAfter("DISABLE_AUTO_POLL", resp, TRUE, "load", "none")
          ELSE DlockAfter("DISABLE_AUTO_POLL", resp, FALSE, "idle", "failed")
    /\ UNCHANGED <<xfer, prev_xfer>>
    /\ UNCHANGED <<messVars, gateVars, lockVars, ifaceVars, codecVars, pubVars>>

Dlock_LoadCard ==
    /\ dlock.pc = "load"
    /\ \E resp \in Responses :
          IF Sw1Ok(resp) THEN DlockAfter("LOAD_CARD", resp, TRUE, "read", "none")
          ELSE DlockAfter("LOAD_CARD", resp, FALSE, "idle", "failed")
    /\ UNCHANGED <<xfer, prev_xfer>>
    /\ UNCHANGED <<messVars, gateVars, lockVars, ifaceVars, codecVars, pubVars>>

Dlock_Read ==
    /\ dlock.pc = "read"
    /\ \E resp \in Responses :
          IF ~Sw1Ok(resp) \/ Len(resp.data) < 6
          THEN DlockAfter("READ_CMD", resp, FALSE, "idle", "failed")
          ELSE IF LockBytesSet(Slice2To6(resp.data)) = "True"
          THEN DlockAfter("READ_CMD", resp, TRUE, "idle", "already_locked")
          ELSE DlockAfter("READ_CMD", resp, TRUE, "write", "none")
    /\ UNCHANGED <<xfer, prev_xfer>>
    /\ UNCHANGED <<messVars, gateVars, lockVars, ifaceVars, codecVars, pubVars>>

Dlock_Write ==
    /\ dlock.pc = "write"
    /\ \E resp \in Responses :
          IF resp.raised
          THEN DlockAfter("WRITE_CMD", resp, FALSE, "idle", "failed")
          ELSE IF resp.sw1 = 144 /\ resp.sw2 = 0
          THEN DlockAfter("WRITE_CMD", resp, TRUE, "verify", "none")
          ELSE DlockAfter("WRITE_CMD", resp, FALSE, "idle", "failed")
    /\ UNCHANGED <<xfer, prev_xfer>>
    /\ UNCHANGED <<messVars, gateVars, lockVars, ifaceVars, codecVars, pubVars>>

Dlock_Verify ==
    /\ dlock.pc = "verify"
    /\ \E resp \in Responses :
          IF ~Sw1Ok(resp)
          THEN DlockAfter("VERIFY", resp, FALSE, "idle", "failed")
          ELSE IF LockBytesSet(Slice2To6(resp.data)) = "True"
          THEN DlockAfter("VERIFY", resp, TRUE, "idle", "locked")
          \* the bytes differ, or the IndexError of page_data[1] is caught
          ELSE DlockAfter("VERIFY", resp, TRUE, "idle", "failed")
    /\ UNCHANGED <<xfer, prev_xfer>>
    /\ UNCHANGED <<messVars, gateVars, lockVars, ifaceVars, codecVars, pubVars>>

InitXferVars ==
    /\ xfer = NoXfer
    /\ prev_xfer = NoXfer
    /\ dlock = NoDlock

-----------------------------------------------------------------------------
(* The batch writers test/custom_write.py and smart_write.py, and the readers *)

\* the highest value the serial counter is followed to
MaxSerial == 10001

IsDigits(str) == str # <<>> /\ \A i \in DOMAIN str : 48 <= str[i] /\ str[i] <= 57

RECURSIVE IntOf(_)
IntOf(str) ==
    IF str = <<>> THEN 0
    ELSE 10 * IntOf(SubSeq(str, 1, Len(str) - 1)) + (str[Len(str)] - 48)

\* int(str) for an unsigned decimal: ok is FALSE where int raises ValueError
int(str) ==
    IF IsDigits(strip(str)) THEN [ok |-> TRUE, value |-> IntOf(strip(str))]
    ELSE [ok |-> FALSE, value |-> 0]

RECURSIVE DigitsOf(_)
DigitsOf(num) ==
    IF num < 10 THEN <<48 + num>>
    ELSE DigitsOf(num \div 10) \o <<48 + (num % 10)>>

\* format with a MINIMUM width: longer strings are not cut
RECURSIVE ZeroPad(_, _)
ZeroPad(str, width) ==
    IF Len(str) >= width THEN str ELSE ZeroPad(<<48>> \o str, width)

\* [ord(c) for c in f"{num:04d}"], num >= 0
number_to_4_bytes(num) == ZeroPad(DigitsOf(num), 4)

get_4_bytes_input_NoStrip(typed) ==
    IF Len(typed) = 4 THEN typed ELSE None

\* custom_write.get_4_bytes_input for one line typed: None where it asks again
get_4_bytes_input(typed) ==
    IF Len(strip(typed)) = 4 THEN strip(typed) ELSE None

\* smart_write.get_4_bytes_input for the lines typed for pages 0x04 and 0x05:
\* the year goes through int() and str(), the branch code through upper()
upper(str) ==
    [i \in DOMAIN str |-> IF 97 <= str[i] /\ str[i] <= 122 THEN str[i] - 32
                           ELSE str[i]]

smart_get_year(typed) ==
    IF int(typed).ok /\ Len(DigitsOf(int(typed).value)) = 4
    THEN DigitsOf(int(typed).value) ELSE None

smart_get_code(typed) ==
    IF Len(upper(strip(typed))) = 4 THEN upper(strip(typed)) ELSE None

\* get_starting_number for one line typed
get_starting_number(typed) ==
    IF int(typed).ok /\ int(typed).value <= 9999
    THEN int(typed) ELSE [ok |-> FALSE, value |-> 0]

\* the places of "-" (45) in the line
Dashes(str) == { i \in DOMAIN str : str[i] = 45 }

\* parse_range: ok is FALSE where it returns (None, None)
parse_range(range_str) ==
    IF Cardinality(Dashes(range_str)) # 1
    THEN [ok |-> FALSE, start |-> 0, end |-> 0]
    ELSE LET d == CHOOSE i \in Dashes(range_str) : TRUE
             start_num == int(SubSeq(range_str, 1, d - 1))
             end_num == int(SubSeq(range_str, d + 1, Len(range_str)))
         IN  IF start_num.ok /\ end_num.ok /\ start_num.value <= end_num.value
             THEN [ok |-> TRUE, start |-> start_num.value, end |-> end_num.value]
             ELSE [ok |-> FALSE, start |-> 0, end |-> 0]

\* write_to_card / write_page: apdu[3] = page; apdu[5:9] = bytes_data
WritePageApdu(page, bytes_data) == <<255, 214, 0, page, 4>> \o bytes_data

\* lines the operator types for a 4-character field
TypedFields ==
    { Str2022, <<32>> \o Str2022, StrKUCP, <<107, 117, 99, 112>>,
      <<65, 32, 32, 66>>, <<32, 65, 66, 32>>, <<50, 48>> }

\* "0033-0034", "9999-10000", "0005-0003", "12"
TypedRanges ==
    { <<48, 48, 51, 51, 45, 48, 48, 51, 52>>,
      <<57, 57, 57, 57, 45, 49, 48, 48, 48, 48>>,
      <<48, 48, 48, 53, 45, 48, 48, 48, 51>>,
      <<49, 50>> }

\* "9998", "9999", "10000", "x1"
TypedStarts ==
    { <<57, 57, 57, 56>>, <<57, 57, 57, 57>>, <<49, 48, 48, 48, 48>>,
      <<120, 49>> }

\* pages a tag can hold: zeros, FF, control bytes, spaces, text
PageChoices ==
    { <<0, 0, 0, 0>>, <<255, 255, 255, 255>>, <<31, 127, 0, 128>>,
      <<32, 32, 32, 32>>, Str2022, <<32, 65, 66, 32>>, <<65, 32, 32, 66>> }

NoFields == [page_04 |-> None, page_05 |-> None]
NoFrame == [page |-> 0, data |-> <<>>]
BlankCard == [block |-> Blank12, origin |-> "blank", page_04 |-> None,
              page_05 |-> None, page_06 |-> None]
NoDecoded == [read |-> FALSE, nfc |-> None, ifc |-> None, rd |-> None,
              cr |-> None]

\* read_data.read_student_data: no length check, no strip
rd_read_student_data(resp) ==
    IF resp.raised \/ ~(resp.sw1 = 144 /\ resp.sw2 = 0) THEN None
    ELSE LET year == extract_ascii(resp.data, 0, 4)
             code == extract_ascii(resp.data, 4, 4)
             student_id == extract_ascii(resp.data, 8, 4)
             res == year \o code \o student_id
         IN  IF res = <<>> THEN None ELSE res

\* custom_read.read_student_data: send_command turns every exception into
\* (False, None); length check, strip
cr_read_student_data(resp) ==
    LET success == ~resp.raised /\ resp.sw1 = 144 /\ resp.sw2 = 0
        data == IF resp.raised THEN None ELSE resp.data
    IN  IF ~success \/ ~Truthy(data) \/ Len(data) < 12 THEN None
        ELSE LET year == extract_ascii(data, 0, 4)
                 code == extract_ascii(data, 4, 4)
                 student_id == extract_ascii(data, 8, 4)
                 res == year \o code \o student_id
             IN  IF strip(res) # <<>> THEN strip(res) ELSE None

CustomWrite_Setup ==
    /\ w_script = "none"
    /\ \E t4 \in TypedFields, t5 \in TypedFields, range_str \in TypedRanges :
          /\ get_4_bytes_input(t4) # None
          /\ get_4_bytes_input(t5) # None
          /\ parse_range(range_str).ok
          /\ w_fields' = [page_04 |-> get_4_bytes_input(t4),
                          page_05 |-> get_4_bytes_input(t5)]
          /\ w_num' = parse_range(range_str).start
          /\ w_end' = parse_range(range_str).end
    /\ w_script' = "custom_write"
    /\ w_frame' = NoFrame
    \* the reader is empty until the first "Tap card"
    /\ card' = BlankCard /\ decoded' = NoDecoded
    /\ UNCHANGED <<messVars, gateVars, lockVars, ifaceVars, xferVars, pubVars>>

SmartWrite_Setup ==
    /\ w_script = "none"
    /\ \E t4 \in TypedFields, t5 \in TypedFields, num_str \in TypedStarts :
          /\ smart_get_year(t4) # None
          /\ smart_get_code(t5) # None
          /\ get_starting_number(num_str).ok
          /\ w_fields' = [page_04 |-> smart_get_year(t4),
                          page_05 |-> smart_get_code(t5)]
          /\ w_num' = get_starting_number(num_str).value
    \* the loop of smart_write has no last number
    /\ w_end' = -1
    /\ w_script' = "smart_write"
    /\ w_frame' = NoFrame
    /\ card' = BlankCard /\ decoded' = NoDecoded
    /\ UNCHANGED <<messVars, gateVars, lockVars, ifaceVars, xferVars, pubVars>>

\* the card after the three writes went through: a page holds four bytes
Written(fields, page_06_data) ==
    [block |-> fields.page_04 \o fields.page_05 \o SubSeq(page_06_data, 1, 4),
     origin |-> "writer", page_04 |-> fields.page_04,
     page_05 |-> fields.page_05, page_06 |-> page_06_data]

\* custom_write.main, one pass of "while current_num <= end_num": outcome is
\* "ok", or "fail" (a write before page 0x06 fails, then the operator is asked)
CustomWrite_WriteCard ==
    /\ w_script = "custom_write"
    /\ w_num <= w_end /\ w_num <= MaxSerial
    /\ \E outcome \in {"ok", "fail"}, retry \in BOOLEAN :
          IF outcome = "ok"
          THEN /\ ~retry
               /\ w_frame' = [page |-> 6, data |-> number_to_4_bytes(w_num)]
               /\ card' = Written(w_fields, number_to_4_bytes(w_num))
               /\ decoded' = NoDecoded
               /\ w_num' = w_num + 1
          ELSE /\ w_num' = IF retry THEN w_num ELSE w_num + 1
               /\ UNCHANGED <<w_frame, card, decoded>>
    /\ UNCHANGED <<w_script, w_fields, w_end>>
    /\ UNCHANGED <<messVars, gateVars, lockVars, ifaceVars, xferVars, pubVars>>

\* smart_write.main, one pass of "while True": action is what the operator
\* answers to "Lock this card?" ("r" writes the same number again)
SmartWrite_WriteCard ==
    /\ w_script = "smart_write"
    /\ w_num <= MaxSerial
    /\ \E outcome \in {"ok", "fail"}, action \in {"lock", "r", "n"} :
          IF outcome = "ok"
          THEN /\ w_frame' = [page |-> 6, data |-> number_to_4_bytes(w_num)]
               /\ card' = Written(w_fields, number_to_4_bytes(w_num))
               /\ decoded' = NoDecoded
               /\ w_num' = IF action = "r" THEN w_num ELSE w_num + 1
          ELSE /\ action # "lock"
               /\ w_num' = IF action = "n" THEN w_num + 1 ELSE w_num
               /\ UNCHANGED <<w_frame, card, decoded>>
    /\ UNCHANGED <<w_script, w_fields, w_end>>
    /\ UNCHANGED <<messVars, gateVars, lockVars, ifaceVars, xferVars, pubVars>>

\* a tag with any content in pages 0x04..0x06 is put on the reader
CardPresented ==
    /\ w_script = "none"
    /\ \E p4 \in PageChoices, p5 \in PageChoices, p6 \in PageChoices :
          card' = [BlankCard EXCEPT !.block = p4 \o p5 \o p6,
                                    !.origin = "presented"]
    /\ decoded' = NoDecoded
    /\ UNCHANGED <<w_script, w_fields, w_num, w_end, w_frame>>
    /\ UNCHANGED <<messVars, gateVars, lockVars, ifaceVars, xferVars, pubVars>>

\* the read_student_data of the four scripts on the card, the read answered
\* 90 00
ReadCard ==
    /\ ~decoded.read
    /\ decoded' = [read |-> TRUE,
                   nfc |-> read_student_data(Transmit("ok", card.block \o Page7)),
                   ifc |-> ifc_read_student_data(Transmit("ok", card.block \o Page7)),
                   rd |-> rd_read_student_data(Transmit("ok", card.block \o Page7)),
                   cr |-> cr_read_student_data(Transmit("ok", card.block \o Page7))]
    /\ UNCHANGED <<w_script, w_fields, w_num, w_end, w_frame, card>>
    /\ UNCHANGED <<messVars, gateVars, lockVars, ifaceVars, xferVars, pubVars>>

InitCodecVars ==
    /\ w_script = "none"
    /\ w_fields = NoFields
    /\ w_num = 0
    /\ w_end = 0
    /\ w_frame = NoFrame
    /\ card = BlankCard
    /\ decoded = NoDecoded

-----------------------------------------------------------------------------
(* The specifications *)

\* no broadcast under way.  next: how many places of the list the loop of
\* broadcast has taken; to: the listener whose send_json is awaited; whole:
\* the listeners connected since the broadcast began; tried: those whose
\* send_json it has called; shrunk: a listener left during the broadcast
NoSending == [active |-> FALSE, next |-> 0, to |-> "none", whole |-> {},
              tried |-> {}, shrunk |-> FALSE]

\* ConnectionManager.__init__: no listener yet
InitPubVars ==
    /\ active_connections = <<>>
    /\ inbox = [w \in Listeners |-> "none"]
    /\ sending = NoSending

\* websocket_endpoint: manager.connect(websocket)
WsConnect ==
    /\ \E w \in Listeners \ Range(active_connections) :
          /\ active_connections' = Append(active_connections, w)
          /\ inbox' = [inbox EXCEPT ![w] = "none"]
    /\ UNCHANGED sending
    /\ UNCHANGED <<messVars, gateVars, lockVars, ifaceVars, xferVars, codecVars>>

\* websocket_endpoint: manager.disconnect(websocket) on WebSocketDisconnect
WsDisconnect ==
    /\ \E i \in 1..Len(active_connections) :
          /\ active_connections' = Without(active_connections, i)
          /\ inbox' = [inbox EXCEPT ![active_connections[i]] = "none"]
          /\ sending' = IF sending.active
                        THEN [sending EXCEPT !.whole = @ \ {active_connections[i]},
                                             !.shrunk = TRUE]
                        ELSE sending
    /\ UNCHANGED <<messVars, gateVars, lockVars, ifaceVars, xferVars, codecVars>>

\* "for connection in self.active_connections": the loop takes the first
\* listener and is suspended in "await connection.send_json(message)"
BroadcastStarts ==
    /\ ~sending.active
    /\ active_connections # <<>>
    /\ sending' = [active |-> TRUE, next |-> 1, to |-> active_connections[1],
                   whole |-> Range(active_connections),
                   tried |-> {active_connections[1]}, shrunk |-> FALSE]
    /\ UNCHANGED <<active_connections, inbox>>
    /\ UNCHANGED <<messVars, gateVars, lockVars, ifaceVars, xferVars, codecVars>>

\* the awaited send_json returns or raises (except: pass), and the list
\* iterator takes the element at its next place of the list as it is now,
\* or ends the loop when the list has no such place
SendReturns ==
    /\ sending.active
    /\ \E outcome \in {"sent", "failed"} :
          inbox' = IF sending.to \in Range(active_connections)
                   THEN [inbox EXCEPT ![sending.to] = outcome]
                   ELSE inbox
    /\ sending' = IF sending.next < Len(active_connections)
                  THEN [sending EXCEPT
                          !.next = @ + 1,
                          !.to = active_connections[sending.next + 1],
                          !.tried = @ \cup {active_connections[sending.next + 1]}]
                  ELSE [sending EXCEPT !.active = FALSE, !.to = "none"]
    /\ UNCHANGED active_connections
    /\ UNCHANGED <<messVars, gateVars, lockVars, ifaceVars, xferVars, codecVars>>

InitOtherVars == InitIfaceVars /\ InitXferVars /\ InitCodecVars /\ InitPubVars

\* no card is tapped at the gate in the mess and lock specifications
GateAtRest == tag_mem["U2"].data = Id9999 \o Page7

InitMess ==
    InitMessVars /\ InitGateVars /\ GateAtRest /\ InitLockVars /\ InitOtherVars

NextMess == ClockAdvance \/ ManualEntry \/ NfcTap

SpecMess == InitMess /\ [][NextMess]_vars

\* the same on a host east of UTC
InitMessEast == InitMess /\ tz_offset = TzEast

SpecMessEast == InitMessEast /\ [][NextMess]_vars

InitGate ==
    /\ InitGateVars /\ InitMessVars /\ TESTING /\ tz_offset = 0
    /\ InitLockVars /\ InitOtherVars

NextGate == Tick \/ CardInserted \/ LoopRuns

SpecGate == InitGate /\ [][NextGate]_vars

\* the gate with three readers and no call of update_config; the clock
\* plays no part in the directions and stands still
NextReaders == CardInsertedAnyReader \/ LoopRuns

SpecReaders == InitGate /\ [][NextReaders]_vars

NextDebounce == Tick \/ CardInsertedWatched \/ LoopRuns

SpecDebounce == InitGate /\ [][NextDebounce]_vars

LunchTime == Hm(12, 30)

\* the gate at lunch time, no mess entry yet
InitBridge ==
    /\ InitGateVars /\ GateAtRest
    /\ tod = LunchTime /\ day = 1 /\ TESTING = TRUE /\ tz_offset = 0
    /\ mess_entries = EmptyBag /\ result = NoResult /\ published = NoResult
    /\ call = NoCall
    /\ InitLockVars /\ InitOtherVars

NextBridge == Tick \/ CardInsertedBridged \/ LoopRunsBridged

SpecBridge == InitBridge /\ [][NextBridge]_vars

InitLock == InitGate /\ GateAtRest

NextLock ==
    \/ ProcessLock
    \/ CheckAndLockCard
    \/ LockCard_Start
    \/ LockCard_Read02
    \/ LockCard_StaticWrite
    \/ LockCard_StaticVerify
    \/ LockCard_DynamicWrite
    \/ LockCard_DynamicVerify
    \/ LockCard_ConfigRead
    \/ LockCard_ConfigWrite
    \/ LockCard_ConfigVerify
    \/ SmartWrite_Start
    \/ SmartWrite_Read02
    \/ SmartWrite_StaticWrite
    \/ SmartWrite_DynamicWrite
    \/ SmartWrite_LockPageWrite
    \/ SmartWrite_ConfigRead
    \/ SmartWrite_ConfigWrite

SpecLock == InitLock /\ [][NextLock]_vars

\* tags with other serial and internal bytes in page 0x02, one of them with
\* some lock bits already set
Tags ==
    { [FreshTag EXCEPT ![STATIC_LOCK_PAGE] = page_02] :
        page_02 \in { <<72, 0, 0, 0>>, <<4, 163, 0, 0>>, <<255, 72, 16, 0>> } }

InitTags ==
    /\ InitGateVars /\ GateAtRest /\ InitMessVars /\ TESTING /\ tz_offset = 0
    /\ InitOtherVars
    /\ lk_script = "none"
    /\ lk_pc = "idle"
    /\ lk_mem \in Tags
    /\ lk_cmds = <<>>
    /\ lk_local = NoLocal
    /\ lk_result = "none"
    /\ lk_verified = NotVerified

SpecLockTags == InitTags /\ [][NextLock]_vars

\* listeners come and go while messages are broadcast
NextBroadcast == WsConnect \/ WsDisconnect \/ BroadcastStarts \/ SendReturns

SpecBroadcast == InitMess /\ [][NextBroadcast]_vars

NextCodec ==
    \/ CustomWrite_Setup
    \/ SmartWrite_Setup
    \/ CustomWrite_WriteCard
    \/ SmartWrite_WriteCard
    \/ CardPresented
    \/ ReadCard

SpecCodec == InitLock /\ [][NextCodec]_vars

NextTransport ==
    \/ SendCommand
    \/ Dlock_DisableAutoPoll
    \/ Dlock_LoadCard
    \/ Dlock_Read
    \/ Dlock_Write
    \/ Dlock_Verify

SpecTransport == InitLock /\ [][NextTransport]_vars

\* test_dlock.py alone, card after card
NextDlock ==
    \/ Dlock_DisableAutoPoll
    \/ Dlock_LoadCard
    \/ Dlock_Read
    \/ Dlock_Write
    \/ Dlock_Verify

SpecDlock == InitLock /\ [][NextDlock]_vars

InitWatched ==
    /\ InitGateVars /\ GateAtRest /\ InitMessVars /\ TESTING /\ tz_offset = 0
    /\ InitLockVars /\ InitObservers /\ InitXferVars /\ InitCodecVars /\ InitPubVars

\* nfc_handler.py or interface.py on every exit path of a card run; the
\* event loop, which never touches a connection, is left out
NextObservers ==
    \/ program = "gate" /\ (Tick \/ CardInserted)
    \/ IfaceCardInserted
    \/ IfaceCardRemoved

SpecObservers == InitWatched /\ [][NextObservers]_vars

\* nfc_handler.py or interface.py with cards put on and taken off the
\* reader; removal events reach the card monitor thread only, so the event
\* loop is left out
NextRemoval ==
    \/ program = "gate" /\ (Tick \/ CardInsertedWatched \/ GateCardRemoved)
    \/ IfaceCardInserted
    \/ IfaceCardRemoved

SpecRemoval == InitWatched /\ [][NextRemoval]_vars

\* interface.py with two tags on two readers, a seated tag being reported
\* again from time to time
InitSeated == InitWatched /\ program = "interface"

NextSeated == IfaceCardInserted \/ IfaceCardRepeated \/ IfaceCardRemoved

SpecSeated == InitSeated /\ [][NextSeated]_vars

\* main.py at lunch time: the card thread, the event loop, tag messages
\* handed to handle_nfc_tap and listeners coming and going
NextPublish ==
    \/ CardInsertedPublishing
    \/ LoopRuns
    \/ NfcTap
    \/ WsConnect
    \/ WsDisconnect

SpecPublish == InitBridge /\ [][NextPublish]_vars

\* either program with a tag whose identity pages are blank; time is left
\* out, a debounced tap reads no identity
InitBlankTag ==
    /\ InitGateVars /\ tag_mem["U2"].data = Blank12 \o Page7
    /\ InitMessVars /\ TESTING /\ tz_offset = 0
    /\ InitLockVars /\ InitObservers /\ InitXferVars /\ InitCodecVars /\ InitPubVars

NextBlankTag ==
    \/ program = "gate" /\ CardInserted
    \/ IfaceCardInserted
    \/ IfaceCardRemoved

SpecBlankTag == InitBlankTag /\ [][NextBlankTag]_vars

\* either program from the moment it is launched
InitStartup ==
    /\ InitGateVars /\ GateAtRest /\ InitMessVars /\ TESTING /\ tz_offset = 0
    /\ InitLockVars /\ InitXferVars /\ InitCodecVars /\ InitPubVars
    /\ program \in {"gate", "interface"}
    /\ last_uid = None
    /\ cards = {}
    /\ itap = NoIfaceTap
    /\ startup = NotStarted

NextStartup ==
    \/ Startup
    \/ startup.done /\ program = "gate" /\ (Tick \/ CardInserted)
    \/ startup.done /\ IfaceCardInserted
    \/ startup.done /\ IfaceCardRemoved

SpecStartup == InitStartup /\ [][NextStartup]_vars

-----------------------------------------------------------------------------
(* Claims about the session gate, checked under SpecMess *)

Returned(status, message, session) ==
    /\ result.type = "mess_response"
    /\ result.status = status
    /\ result.message = message
    /\ result.session = session
    /\ result.student_id = call.student_id

\* C3 as stated: for a non-guest identity in an active session, process_entry
\* returns 'denied' / 'Already taken <session>' when the identity has an entry
\* for the session today, and otherwise returns status 'success' for the session.
C3_AsStated ==
    (call.reached /\ call.student_id # Guest /\ call.session # NoSession)
    => IF call.eaten
       THEN Returned("denied", "Already taken", call.session)
       ELSE Returned("success", "Enjoy your", call.session)

\* C3 amended: as above, but without a prior entry the call returns 'success'
\* only when log_mess_entry returned True, and status 'error' / 'Database
\* Error' when it returned False.
C3_DenyElseLog ==
    (call.reached /\ call.student_id # Guest /\ call.session # NoSession)
    => IF call.eaten
       THEN Returned("denied", "Already taken", call.session)
       ELSE IF call.db_ok
            THEN Returned("success", "Enjoy your", call.session)
            ELSE Returned("error", "Database Error", "-")

C3_Witness ==
    /\ call.reached /\ call.student_id = Id1033 /\ call.session = "BREAKFAST"
    /\ call.eaten
    /\ result.status = "denied"

\* C4 as stated: in an active session the guest identity is always allowed,
\* however many guest entries the session already has today, and has_eaten is
\* not consulted.
C4_AsStated ==
    (call.reached /\ call.student_id = Guest /\ call.session # NoSession)
    => /\ Returned("success", "Enjoy your", call.session)
       /\ ~call.consulted

\* C4 amended: in an active session a guest call never consults has_eaten and
\* never returns 'denied'; it returns 'success' when log_mess_entry returned
\* True, whatever the number of guest entries already recorded today, and
\* 'Database Error' when log_mess_entry returned False.
C4_GuestExempt ==
    (call.reached /\ call.student_id = Guest /\ call.session # NoSession)
    => /\ ~call.consulted
       /\ IF call.db_ok
          THEN Returned("success", "Enjoy your", call.session)
          ELSE Returned("error", "Database Error", "-")

C4_Witness ==
    /\ call.reached /\ call.student_id = Guest /\ call.session # NoSession
    /\ call.prior >= 1
    /\ result.status = "success"

InNoWindow(t) ==
    \A i \in 1..Len(SESSIONS) : t < SESSIONS[i].start \/ t > SESSIONS[i].end

\* C5: outside every session window get_current_session returns 'TEST' when
\* TESTING is enabled and no session otherwise; without a session process_entry
\* answers 'No Active Session' for every identity, the guest included.
C5_Fallback ==
    (call.reached /\ InNoWindow(call.tod))
    => IF TESTING
       THEN call.session = "TEST"
       ELSE /\ call.session = NoSession
            /\ Returned("error", "No Active Session", "-")

C5_Witness ==
    /\ call.reached /\ InNoWindow(call.tod) /\ ~TESTING
    /\ call.student_id = Guest
    /\ result.message = "No Active Session"

-----------------------------------------------------------------------------
(* Claims about the gate observer *)

Sent(cmd) == \E i \in 1..Len(tap.cmds) : tap.cmds[i] = cmd

RowsOf(student_id) ==
    { row \in BagToSet(entries) : row.STUDENT_ID = student_id }

C2_ToneOnlyOnSuccess ==
    Sent(CMD_BEEP_SUCCESS)
    => (tap.outcome = "done" /\ tap.student_id # None /\ tap.status = "success")

\* C10: the success tone of a tap is emitted only once the consumer has resolved
\* the outcome handed to it, and not when it has not resolved or has not
\* answered success.
C10_ToneAwaitsDecision ==
    Sent(CMD_BEEP_SUCCESS) => (tap.scheduled /\ tap.decision = "success")

-----------------------------------------------------------------------------
(* Claims about the lock routines, checked under SpecLock *)

WritesTo(page) ==
    { i \in 1..Len(lk_cmds) :
        Len(lk_cmds[i]) = 9 /\ SubSeq(lk_cmds[i], 1, 5) = <<255, 214, 0, page, 4>> }

ReadsAt(page) ==
    { i \in 1..Len(lk_cmds) : lk_cmds[i] = ReadApdu(page, ReadLength) }

InLockStep == lk_script \in {"process_lock", "check_and_lock_card"}

InSequence == lk_script \in {"lock_card", "smart_write"}

ReportsSuccess == lk_result \in {"complete", "True"}

\* C6: once a lock step has read the lock page of the tag as locked, a later
\* invocation of the lock step sends no write command to the lock page and
\* reports success.
C6_LockMonotone ==
    (InLockStep /\ lk_verified.before)
    => (WritesTo(LOCK_PAGE) = {} /\ lk_result = "True")

C8_AbortOnStaticFailure ==
    (InSequence /\ Cardinality(WritesTo(STATIC_LOCK_PAGE)) = 2
     /\ ~StaticVerified(lk_mem[STATIC_LOCK_PAGE]))
    => /\ WritesTo(DYNAMIC_LOCK_PAGE) \cup WritesTo(LOCK_PAGE)
          \cup WritesTo(CONFIG_PAGE) = {}
       /\ ~ReportsSuccess

\* C9: a finished run that got to the configuration stage (static and dynamic
\* stages done) and in which the card stayed on the reader reports success,
\* whatever the configuration read, write or read-back answered.
C9_ConfigLockOptional ==
    (InSequence /\ lk_pc = "idle" /\ ReadsAt(CONFIG_PAGE) # {}
     /\ lk_result \notin {"removed", "raised"})
    => ReportsSuccess

-----------------------------------------------------------------------------
(* The bridge from the card monitor thread to the event loop *)

\* the numbers of the taps of uid still waiting, in queue order
PendingOf(uid) ==
    LET mine == SelectSeq(bridge.pending, LAMBDA p : p.uid = uid)
    IN  [k \in 1..Len(mine) |-> mine[k].n]

\* C11: the taps of one UID are handled in the order they were made, none
\* skipped and none twice (the k-th waiting tap of a UID is the k-th after the
\* last one handled), and every coroutine that has run has returned in the
\* step that started it, so no two are ever in flight together.
C11_BridgeOrder ==
    /\ Len(bridge.pending) = Len(loop_queue)
    /\ \A u \in UIDs :
          /\ \A k \in DOMAIN PendingOf(u) : PendingOf(u)[k] = bridge.handled[u] + k
          /\ bridge.handled[u] + Len(PendingOf(u)) = bridge.count[u]
    /\ result \in {NoResult,
                   [NoResult EXCEPT !.type = "callback", !.status = "ignored"]}

\* two taps of one UID wait together, then the first of them has been handled
C11_Witness ==
    /\ bridge.count["U1"] = 2
    /\ bridge.handled["U1"] = 1
    /\ PendingOf("U1") = <<2>>

\* C19: a tap of 2022KUCP1033 at lunch time with no entry yet, once its
\* coroutine has run, has gone through the session gate and its outcome
\* (success, LUNCH, 2022KUCP1033) has been published.
C19_LunchOutcome ==
    (tap.student_id = Id1033 /\ tap.scheduled
        /\ tap.decision \notin {"none", "pending"})
    => /\ result.type = "mess_response"
       /\ result.status = "success"
       /\ result.student_id = Id1033
       /\ result.session = "LUNCH"
       /\ published = result

\* a step in which process_card ran for a card whose UID was read and was
\* last accepted less than debounce_time ago
DebouncedInsertion ==
    /\ now' = now
    /\ Len(loop_queue') >= Len(loop_queue)
    /\ tap'.uid_read
    /\ tap'.uid \in DOMAIN last_scanned_uid
    /\ now - last_scanned_uid[tap'.uid] < debounce_time

\* C15: a debounced insertion is ignored entirely: the only frame sent is the
\* UID read, no entry is recorded, nothing is handed to the event loop, and
\* neither the tag nor the debounce table changes.
C15_DebouncedIgnored ==
    [][DebouncedInsertion =>
          /\ tap'.outcome = "skipped"
          /\ tap'.cmds = <<CMD_GET_UID>>
          /\ ~tap'.logged /\ ~tap'.scheduled
          /\ entries' = entries
          /\ Len(loop_queue') = Len(loop_queue)
          /\ tag_mem' = tag_mem
          /\ last_scanned_uid' = last_scanned_uid]_vars

\* a tap skipped by the debounce while an earlier tap's entry is on record
C15_Witness ==
    /\ tap.outcome = "skipped"
    /\ tap.cmds = <<CMD_GET_UID>>
    /\ entries # EmptyBag

-----------------------------------------------------------------------------
(* Claims about both card observers *)

\* C16 as stated: at the gate too, an insertion that follows a removal of the
\* same card is processed, never skipped.
C16_AsStated ==
    \A u \in UIDs :
        (tap.uid = u /\ tap.uid_read /\ watch[u].premoved)
        => tap.outcome # "skipped"

\* C16: in interface.py a removal clears last_uid, so the insertion that
\* follows is never taken for the card still on the reader; at the gate a
\* removal changes nothing, and the insertion that follows it is skipped
\* exactly when it comes less than debounce_time after the accepted one.
C16_RemovalClears ==
    /\ (program = "interface" /\ itap.event = "removed") => last_uid = None
    /\ (itap.after_removal /\ itap.uid_read) => itap.outcome # "same_uid"
    /\ \A u \in UIDs :
          (tap.uid = u /\ tap.uid_read /\ watch[u].premoved /\ watch[u].paccepted)
          => (tap.outcome = "skipped"
                <=> watch[u].t - watch[u].pt < debounce_time)

\* interface.py: a card processed and locked, taken off, put on again and
\* processed again (its lock page now reads as locked)
C16_Witness ==
    /\ itap.after_removal /\ itap.uid = "U1" /\ itap.outcome = "done"
    /\ itap.cmds = <<CMD_GET_UID, CMD_DISABLE_BEEP,
                     ReadApdu(STUDENT_DATA_PAGE, 16), ReadApdu(LOCK_PAGE, 4),
                     CMD_BEEP_SUCCESS>>
    /\ last_uid = toHexString("U1")

\* C12: every run of process_card and of _process_card that got a connection
\* from createConnection has called disconnect() on it when it returns,
\* whatever the path: connect() raising, UID read failure, debounce or
\* same-card skip, unreadable tag, lock failure, database error, success.
C12_ConnectionClosed ==
    /\ tap.outcome # "none" => tap.closed
    /\ itap.created => itap.closed
    /\ itap.opened => itap.created

\* a run of the interface ended by an exception after its connection was
\* opened, and the connection is closed
C12_Witness ==
    /\ itap.outcome = "error" /\ itap.opened /\ itap.closed

-----------------------------------------------------------------------------
(* Claims about the transport, checked under SpecTransport *)

Exactly9000(resp) == ~resp.raised /\ resp.sw1 = 144 /\ resp.sw2 = 0

C18_LossDistinct ==
    (xfer.sent /\ prev_xfer.sent /\ xfer.resp.raised
        /\ ~prev_xfer.resp.raised /\ ~Exactly9000(prev_xfer.resp))
    => xfer.nfc # prev_xfer.nfc

-----------------------------------------------------------------------------
(* Claims about the identity codec and the batch writers, under SpecCodec *)

AllPrintable(block) == \A i \in DOMAIN block : Printable(block[i])

NonePrintable(block) == \A i \in DOMAIN block : block[i] < 32 \/ block[i] > 126

Stripped(block) == IF strip(block) = <<>> THEN None ELSE strip(block)

\* C13 as stated: every block of 12 printable bytes, spaces included, decodes
\* to exactly its 12 characters.
C13_AsStated ==
    (decoded.read /\ AllPrintable(card.block))
    => (decoded.nfc = card.block /\ decoded.ifc = card.block)

\* C13: a card written by custom_write or smart_write with a serial of four
\* digits decodes to exactly year + code + serial, the fields as the writer
\* accepted them (a typed line is stripped first, so no field begins or ends
\* with a space); and any block of 12 printable bytes decodes to its
\* characters with the spaces at both ends removed, to None if all are spaces.
C13_RoundTrip ==
    /\ (decoded.read /\ card.origin = "writer" /\ Len(card.page_06) = 4)
          => /\ decoded.nfc = card.page_04 \o card.page_05 \o card.page_06
             /\ decoded.ifc = card.page_04 \o card.page_05 \o card.page_06
    /\ (decoded.read /\ AllPrintable(card.block))
          => /\ decoded.nfc = Stripped(card.block)
             /\ decoded.ifc = Stripped(card.block)

\* a card written from a line typed with a space in front, a code with
\* spaces inside and a zero-padded serial, read back
C13_Witness ==
    /\ decoded.read /\ card.origin = "writer"
    /\ card.page_04 = Str2022 /\ card.page_05 = <<65, 32, 32, 66>>
    /\ card.page_06 = <<48, 48, 51, 51>>
    /\ decoded.nfc = Str2022 \o <<65, 32, 32, 66, 48, 48, 51, 51>>

\* C14: a block whose 12 bytes all lie outside 0x20..0x7E decodes to None in
\* nfc_handler.py, interface.py and read_data.py.
C14_NonPrintableInvalid ==
    (decoded.read /\ NonePrintable(card.block))
    => (decoded.nfc = None /\ decoded.rd = None /\ decoded.ifc = None)

\* a tag holding FF bytes, control bytes and zeros has been read
C14_Witness ==
    /\ decoded.read /\ decoded.nfc = None /\ decoded.rd = None
    /\ card.block = <<255, 255, 255, 255, 31, 127, 0, 128, 0, 0, 0, 0>>

\* C20: every write to page 0x06 carries exactly four bytes, all digits.
C20_FourDigits ==
    w_frame.page = 6
    => (Len(w_frame.data) = 4 /\ IsDigits(w_frame.data)
        /\ Len(WritePageApdu(w_frame.page, w_frame.data)) = 9)

-----------------------------------------------------------------------------
(* Claims about the reader's automatic feedback, checked under SpecStartup *)

\* every frame of cmds other than the UID read and the disable command itself
\* (a page read, a lock command, the success tone) comes after a
\* CMD_DISABLE_BEEP of the same run
DisableFirst(cmds) ==
    \A i \in 1..Len(cmds) :
        cmds[i] \notin {CMD_GET_UID, CMD_DISABLE_BEEP}
            => \E j \in 1..(i - 1) : cmds[j] = CMD_DISABLE_BEEP

\* in every processed interaction the disable command is sent, and first
EachTapDisablesFirst ==
    /\ tap.accepted
          => /\ \E i \in 1..Len(tap.cmds) : tap.cmds[i] = CMD_DISABLE_BEEP
             /\ DisableFirst(tap.cmds)
    /\ itap.outcome \in {"unreadable", "lock_failed", "error", "db_error", "done"}
          => /\ \E i \in 1..Len(itap.cmds) : itap.cmds[i] = CMD_DISABLE_BEEP
             /\ DisableFirst(itap.cmds)

\* C21: the monitor sends the disable-automatic-feedback command
\* (FF 00 52 00 00) once while it starts, and again in every processed tag
\* interaction before any page read, lock command or success tone of that
\* interaction.
C21_DisabledAtStartupAndEachTap ==
    /\ startup.done => startup.cmds = <<CMD_DISABLE_BEEP>>
    /\ EachTapDisablesFirst

-----------------------------------------------------------------------------
(* Claims about unreadable tags, checked under SpecBlankTag *)

TouchesLockPage(cmds) ==
    \E i \in 1..Len(cmds) :
        \/ cmds[i] = ReadApdu(LOCK_PAGE, 4)
        \/ cmds[i] = WriteApdu(LOCK_PAGE, LOCK_DATA)

\* the identity pages of the tag do not decode to a non-empty string
Undecodable(uid) ==
    /\ uid \in UIDs
    /\ read_student_data(Transmit("ok", tag_mem[uid].data)) = None
    /\ ifc_read_student_data(Transmit("ok", tag_mem[uid].data)) = None

\* C22: when the identity bytes do not decode to a non-empty string (or the
\* read of the identity pages fails), the interaction aborts without touching
\* lock state: no read or write command is sent to the lock page, no entry is
\* recorded and no success tone is emitted.
C22_UnreadableAborts ==
    /\ (tap.accepted /\ (Undecodable(tap.uid) \/ tap.student_id = None))
          => /\ ~TouchesLockPage(tap.cmds)
             /\ ~tap.logged /\ ~tap.scheduled
             /\ \A i \in 1..Len(tap.cmds) : tap.cmds[i] # CMD_BEEP_SUCCESS
    /\ (itap.uid_read /\ itap.outcome # "same_uid"
            /\ (Undecodable(itap.uid) \/ itap.student_id = None))
          => /\ ~TouchesLockPage(itap.cmds)
             /\ ~itap.logged
             /\ \A i \in 1..Len(itap.cmds) : itap.cmds[i] # CMD_BEEP_SUCCESS

\* a blank tag was read without error by the gate observer, and nothing else
\* was sent to it
C22_Witness ==
    /\ tap.accepted /\ Undecodable(tap.uid)
    /\ tap.outcome = "unreadable"
    /\ tap.cmds = <<CMD_GET_UID, CMD_DISABLE_BEEP, ReadApdu(STUDENT_DATA_PAGE, 16)>>

-----------------------------------------------------------------------------
(* Claims about failures inside a card run, checked under SpecObservers *)

RetapAtGate == tap'.uid = tap.uid /\ tap'.uid_read /\ tap' # tap

C24_LossClearsMarker ==
    (itap.event = "inserted" /\ itap.lost)
        => /\ last_uid # toHexString(itap.uid)
           /\ ~itap.logged
           /\ itap.outcome # "error"

-----------------------------------------------------------------------------
(* Claims about publishing outcomes, checked under SpecPublish *)

\* the run of the card thread went through all of its steps: both database
\* calls, the tone, and the connection closed
RunComplete ==
    /\ tap.logged /\ tap.closed
    /\ tap.cmds[Len(tap.cmds)] = CMD_BEEP_SUCCESS

\* a step of handle_nfc_tap that went as far as manager.broadcast
HandlerBroadcasts ==
    /\ call'.handler = "handle_nfc_tap" /\ call'.reached
    /\ UNCHANGED <<active_connections, tap, loop_queue>>
    /\ <<call, result, inbox>>' # <<call, result, inbox>>

-----------------------------------------------------------------------------
(* Claims about the session windows, checked under SpecMess *)

WindowNames == { SESSIONS[i].name : i \in 1..Len(SESSIONS) }

BetweenWindows(t) ==
    \E i \in 1..(Len(SESSIONS) - 1) :
        SESSIONS[i].end < t /\ t < SESSIONS[i + 1].start

\* C27: get_current_session treats both bounds of a window as inclusive: at
\* a time equal to the start or to the end of a window (07:30:00 or 10:00:00
\* for BREAKFAST) that window is the session, and at a time strictly between
\* two windows the session is none of the windows.
C27_InclusiveBounds ==
    call.reached
    => /\ \A i \in 1..Len(SESSIONS) :
             (call.tod = SESSIONS[i].start \/ call.tod = SESSIONS[i].end)
                => call.session = SESSIONS[i].name
       /\ BetweenWindows(call.tod) => call.session \notin WindowNames

\* an entry at 10:00:00 sharp, the end of the BREAKFAST window
C27_Witness ==
    /\ call.reached /\ call.tod = Hm(10, 0)
    /\ call.session = "BREAKFAST"

-----------------------------------------------------------------------------
(* Claims about the tone of interface.py, checked under SpecObservers *)

ToneSent == \E i \in 1..Len(itap.cmds) : itap.cmds[i] = CMD_BEEP_SUCCESS

\* the lock step of the run ended with the lock page read as locked: by its
\* first read, or by the read that follows its write
LockConfirmed ==
    /\ IsLocked(tag_mem[itap.uid].lock)
    /\ \E i \in 1..Len(itap.cmds) :
          /\ itap.cmds[i] = ReadApdu(LOCK_PAGE, 4)
          /\ \A j \in (i + 1)..Len(itap.cmds) : itap.cmds[j] = CMD_BEEP_SUCCESS

\* C26: in StudentCardObserver._process_card the success tone is sent only
\* on full success: only when, in that same interaction, the UID was read,
\* the identity read returned a non-empty identity, check_and_lock_card
\* returned True (already locked, or written and verified) and the database
\* log did not raise.
C26_ToneOnlyOnFullSuccess ==
    ToneSent
    => /\ itap.uid_read
       /\ Truthy(itap.student_id)
       /\ LockConfirmed
       /\ itap.logged
       /\ itap.cmds[Len(itap.cmds)] = CMD_BEEP_SUCCESS

\* a tag read, locked by this run (read, write, verifying read), logged, and
\* then the tone
C26_Witness ==
    /\ ToneSent /\ itap.logged
    /\ itap.cmds = <<CMD_GET_UID, CMD_DISABLE_BEEP,
                     ReadApdu(STUDENT_DATA_PAGE, 16), ReadApdu(LOCK_PAGE, 4),
                     WriteApdu(LOCK_PAGE, LOCK_DATA), ReadApdu(LOCK_PAGE, 4),
                     CMD_BEEP_SUCCESS>>

-----------------------------------------------------------------------------
(* Claims about the stages of the lock sequence, checked under SpecLockTags *)

StagePages == {STATIC_LOCK_PAGE, DYNAMIC_LOCK_PAGE}

\* the read that verifies a stage in lock_card.py
VerifyRead(page) ==
    IF page = STATIC_LOCK_PAGE THEN ReadApdu(FirstPage, ReadLength)
    ELSE ReadApdu(DynamicReadPage, ReadLength)

RunOver == InSequence /\ lk_pc = "idle"

\* the run stopped on a write to the dynamic lock page: an accepted write is
\* always followed by another command, so this write was refused or lost
DynamicWriteFailed ==
    RunOver /\ Len(lk_cmds) \in WritesTo(DYNAMIC_LOCK_PAGE)

BothStagesWritten ==
    /\ Cardinality(WritesTo(STATIC_LOCK_PAGE)) = WriteAttempts
    /\ Cardinality(WritesTo(DYNAMIC_LOCK_PAGE)) = WriteAttempts

\* C29: a run of the lock sequence reports success only if the static and the
\* dynamic stage were both written in full, and a run that stopped on a
\* refused or lost dynamic write reports failure.
C29_SuccessNeedsBothStages ==
    /\ (RunOver /\ ReportsSuccess) => BothStagesWritten
    /\ DynamicWriteFailed => ~ReportsSuccess

\* the same, of lock_card.py alone
C29_LockCardScript ==
    lk_script = "lock_card" => C29_SuccessNeedsBothStages

\* C30: every write the lock sequence sends to the static lock page carries
\* bytes 0-1 of page 0x02 as the tag holds them, read from the tag earlier in
\* the same run, followed by FF FF.
C30_StaticWritePreservesSerial ==
    InSequence
    => \A i \in WritesTo(STATIC_LOCK_PAGE) :
          /\ lk_cmds[i] = WriteApdu(STATIC_LOCK_PAGE,
                                    <<lk_mem[STATIC_LOCK_PAGE][1],
                                      lk_mem[STATIC_LOCK_PAGE][2], 255, 255>>)
          /\ \E k \in ReadsAt(FirstPage) : k < i

\* a static lock write was sent to a tag whose bytes 0-1 are both non-zero
C30_Witness ==
    /\ InSequence
    /\ WritesTo(STATIC_LOCK_PAGE) # {}
    /\ lk_mem[STATIC_LOCK_PAGE][1] = 255
    /\ lk_mem[STATIC_LOCK_PAGE][2] = 72

-----------------------------------------------------------------------------
(* Claims about the decoders of the script variants, checked under SpecCodec *)

\* C31: for every content of pages 0x04..0x06 the read_student_data of
\* nfc_handler.py, interface.py, custom_read.py and read_data.py return the
\* same identity, or all of them return None.
C31_DecodersAgree ==
    decoded.read
    => /\ decoded.ifc = decoded.nfc
       /\ decoded.cr = decoded.nfc
       /\ decoded.rd = decoded.nfc

\* the three decoders that strip agree with each other
C31_StrippingDecodersAgree ==
    decoded.read => (decoded.ifc = decoded.nfc /\ decoded.cr = decoded.nfc)

\* read_data.py differs from the others exactly by the strip
C31_ReadDataUnstripped ==
    (decoded.read /\ decoded.rd # None)
    => decoded.nfc = (IF strip(decoded.rd) = <<>> THEN None ELSE strip(decoded.rd))

-----------------------------------------------------------------------------
(* Claims about the entry store, checked under SpecMess and SpecMessEast *)

\* C32: whatever calls of the NFC-tap handler and of manual entry were made,
\* the mess entry store holds at most one entry of each non-guest identity
\* for one session and one day.
C32_OneEntryPerSessionAndDay ==
    \A row \in BagToSet(mess_entries) :
        row.STUDENT_ID # Guest => CopiesIn(row, mess_entries) <= 1

\* the same with the clocks of the database and of the program in one zone
C32_InUTC ==
    tz_offset = 0 => C32_OneEntryPerSessionAndDay

\* C33: a call of process_entry that returns 'No Active Session' or 'denied'
\* leaves the entry store as it was; the store grows by the one row of the
\* caller only in a call that returns 'success'.
C33_StoreChangesOnInsertOnly ==
    [][ /\ (call'.reached /\ result'.status = "denied")
             => mess_entries' = mess_entries
        /\ (call'.reached /\ result'.message = "No Active Session")
             => mess_entries' = mess_entries
        /\ mess_entries' # mess_entries
             => /\ call'.reached /\ result'.status = "success"
                /\ BagCardinality(mess_entries') = BagCardinality(mess_entries) + 1
      ]_vars

\* a call was denied while the store held the entry that caused the denial
C33_Witness ==
    /\ call.reached /\ result.status = "denied"
    /\ BagCardinality(mess_entries) = 1

C34_ManualEntryOnly ==
    [][ (call'.handler = "manual_entry" /\ mess_entries' # mess_entries)
          => (IsStudent(call'.student_id) \/ call'.student_id = Guest) ]_vars

-----------------------------------------------------------------------------
(* Claims about the debounce record, checked under SpecDebounce *)

\* an insertion event of u whose UID was read
InsertionSeen(u) == watch'[u] # watch[u]

\* 3 s or more have passed since the event of u that was processed last
Due(u) ==
    u \notin DOMAIN last_scanned_uid \/ now - last_scanned_uid[u] >= debounce_time

\* C35: an insertion event is processed exactly when its tag has no debounce
\* record or 3 s have passed since the record was written; a processed event
\* sets the record of its tag to the time of the event and a skipped event
\* leaves the whole debounce table as it was, so the record always holds the
\* time of the last processed event, not of the last event seen.
C35_StampOnlyWhenAccepted ==
    [][\A u \in UIDs :
          InsertionSeen(u)
          => /\ watch'[u].accepted = Due(u)
             /\ Due(u) => /\ DOMAIN last_scanned_uid' = DOMAIN last_scanned_uid \cup {u}
                          /\ last_scanned_uid'[u] = now
                          /\ \A v \in DOMAIN last_scanned_uid \ {u} :
                                last_scanned_uid'[v] = last_scanned_uid[v]
             /\ ~Due(u) => last_scanned_uid' = last_scanned_uid]_vars

\* a tag processed although its last event, a skipped one, was seen less than
\* 3 s before
C35_Witness ==
    \E u \in UIDs :
        /\ watch[u].accepted /\ watch[u].pt >= 0 /\ ~watch[u].paccepted
        /\ watch[u].t - watch[u].pt < debounce_time
        /\ last_scanned_uid[u] = watch[u].t

-----------------------------------------------------------------------------
(* Claims about the same-card check of interface.py, checked under SpecSeated *)

\* a repeated insertion event of a seated tag that a run has processed
RepeatedEvent ==
    /\ itap'.event = "repeated" /\ itap'.uid_read
    /\ itap'.uid \in itap.processed
    /\ cards' = cards

\* C36: while a processed tag stays seated, a repeated insertion event of it
\* is not processed again, whatever other tag was put on or taken off in
\* between.
C36_SeatedTagNotReprocessed ==
    [][RepeatedEvent => itap'.outcome = "same_uid"]_vars

\* the same when the event before was an insertion event of the same tag
C36_NoTagInBetween ==
    [][(RepeatedEvent /\ itap.uid = itap'.uid /\ itap.event # "removed"
          /\ itap.outcome \in {"same_uid", "unreadable", "lock_failed", "error",
                               "db_error", "done"})
          => itap'.outcome = "same_uid"]_vars

-----------------------------------------------------------------------------
(* Claims about a broadcast and the listeners, checked under SpecBroadcast *)

BroadcastOver == ~sending.active /\ sending.next > 0

\* C37: when a broadcast is over, send_json was called on every listener
\* that was connected from its beginning to its end, whichever sends raised
\* and whichever other listeners left in the meantime.
C37_EveryListenerReached ==
    BroadcastOver => sending.whole \subseteq sending.tried

\* the same of a broadcast during which no listener left
C37_NobodyLeft ==
    (BroadcastOver /\ ~sending.shrunk) => sending.whole \subseteq sending.tried

-----------------------------------------------------------------------------
(* Claims about the directions of the readers, checked under SpecReaders *)

Assigned(r) == r \in {reader_config.in_reader, reader_config.out_reader}

\* the direction the configuration gives a reader
ConfiguredDirection(cfg, r) ==
    IF r = cfg.in_reader THEN "in"
    ELSE IF r = cfg.out_reader THEN "out"
    ELSE "unknown"

\* C38: with auto-assignment only, in_reader and out_reader are never the
\* same reader, 'in' is assigned before 'out', a reader that has a direction
\* keeps it in every later tap, and a tap reports the direction its reader
\* has: the first reader seen is 'in', the second is 'out', and a reader seen
\* when both are taken is 'unknown' and is not assigned.
C38_DirectionsStable ==
    /\ [](reader_config.in_reader # NoReader
             => reader_config.in_reader # reader_config.out_reader)
    /\ [](reader_config.out_reader # NoReader
             => reader_config.in_reader # NoReader)
    /\ [](tap.reader # "none"
             => tap.direction = ConfiguredDirection(reader_config, tap.reader))
    /\ [][ /\ \A r \in ReaderNames :
                 Assigned(r) => ConfiguredDirection(reader_config', r)
                                  = ConfiguredDirection(reader_config, r)
           /\ (tap' # tap /\ ~Assigned(tap'.reader)
                 /\ reader_config.out_reader # NoReader)
                 => (tap'.direction = "unknown" /\ reader_config' = reader_config)
           /\ (tap' # tap /\ reader_config.in_reader = NoReader)
                 => tap'.direction = "in" ]_vars

\* a third reader was tapped after the first two had their directions
C38_Witness ==
    /\ reader_config.in_reader # NoReader /\ reader_config.out_reader # NoReader
    /\ tap.reader \notin {"none", reader_config.in_reader, reader_config.out_reader}
    /\ tap.direction = "unknown"

-----------------------------------------------------------------------------
(* Claims about the counters of test_dlock.py, checked under SpecDlock *)

OutcomeCount ==
    dlock.locked_count + dlock.already_locked_count + dlock.failed_count

\* C39: after each card exactly one outcome counter has been incremented:
\* card_count = locked_count + already_locked_count + failed_count whenever no
\* card is being processed, and the card being processed is the only one not
\* counted yet.
C39_OneCounterPerCard ==
    /\ dlock.pc = "idle" => dlock.card_count = OutcomeCount
    /\ dlock.pc # "idle" => dlock.card_count = OutcomeCount + 1

\* three cards done: one locked, one found locked, one failed
C39_Witness ==
    /\ dlock.pc = "idle" /\ dlock.card_count = 3
    /\ dlock.locked_count = 1 /\ dlock.already_locked_count = 1
    /\ dlock.failed_count = 1

====
